---- MODULE Spec2Model ----
(***************************************************************************)
(* Model of the delegated-authorization core of the ProGear Hiking API:    *)
(* the two-hop identity-assertion exchange driven by the user-access       *)
(* check, the management-credential cache of the token vault, the JWKS     *)
(* cache with identity-token validation, and the inventory write paths.    *)
(*                                                                         *)
(* Each handler is cut at its awaits: one action up to the outbound call,  *)
(* one action per upstream answer.  Upstream answers, clock readings and   *)
(* configuration are inputs drawn from small sets.                         *)
(***************************************************************************)
EXTENDS Integers, Sequences, FiniteSets, TLC

(***************************************************************************)
(* Bounds                                                                  *)
(***************************************************************************)
NumReqs == 1
Reqs == 1..NumReqs

(***************************************************************************)
(* Python values                                                           *)
(***************************************************************************)
\* A str is a sequence of symbols; a scope name is one symbol, SP is " ".
SP == " "
NoneStr == "None"

\* None and the tokens handed out by the authorization servers.
NoneTok == [t |-> "none", of |-> 0]
IdToken(r) == [t |-> "id_token", of |-> r]
IdJag(r) == [t |-> "id_jag", of |-> r]
AccessTok(r) == [t |-> "access_token", of |-> r]

RECURSIVE FirstSp(_, _)
\* index of the first SP of s at or after i, 0 when there is none
FirstSp(s, i) ==
    IF i > Len(s) THEN 0
    ELSE IF s[i] = SP THEN i
    ELSE FirstSp(s, i + 1)

RECURSIVE PySplit(_)
\* str.split(" "): cut at every single SP, empty pieces kept
PySplit(s) ==
    LET i == FirstSp(s, 1)
    IN  IF i = 0 THEN <<s>>
        ELSE <<SubSeq(s, 1, i - 1)>> \o PySplit(SubSeq(s, i + 1, Len(s)))

RECURSIVE PyJoin(_)
\* " ".join(l) for a list l of strs
PyJoin(l) ==
    IF l = <<>> THEN <<>>
    ELSE IF Len(l) = 1 THEN l[1]
    ELSE l[1] \o <<SP>> \o PyJoin(Tail(l))

\* the str of a scope name, and a list of names as a list of strs
Str(n) == <<n>>
StrList(names) == [i \in 1..Len(names) |-> Str(names[i])]
Range(f) == {f[i] : i \in DOMAIN f}

(***************************************************************************)
(* Settings (core/config.py) and literals of the user router               *)
(***************************************************************************)
inventory_scopes == <<"inventory:read", "inventory:write", "inventory:alert">>
FallbackGroups == {"ProGear-Sales", "ProGear-Warehouse", "Admins"}
FallbackScopes == <<"inventory:read", "inventory:write", "inventory:alert">>
SalesforceScopes == <<"sales:read", "sales:write", "customer:read", "customer:lookup">>
\* the scope list the chat endpoints give every caller (chat.py 416, 582)
ChatScopes == <<"inventory:read", "inventory:write", "inventory:alert">>

VARIABLES
    inventory_auth_server_id,   \* TRUE iff settings.inventory_auth_server_id is non-empty
    wlp_private_key,            \* TRUE iff settings.wlp_private_key is non-empty
    groups,                     \* groups[r]: user.groups of the validated user of request r
    pc,                         \* pc[r]: position of get_user_access for request r
    sf,                         \* sf[r]: outcome of the vault lookups of request r
    up1, up2,                   \* answers of the org AS / resource AS to request r
    s1, s2,                     \* outcomes of exchange_for_id_jag / exchange_id_jag_for_token
    resp,                       \* resp[r]: what the endpoint answered
    sent,                       \* token requests sent so far
    jti_next                    \* number of client assertions minted so far

accessVars == <<inventory_auth_server_id, wlp_private_key, groups, pc, sf,
                up1, up2, s1, s2, resp, sent, jti_next>>

\* the clock and TokenVault
VARIABLES
    now,                 \* what time.time() returns
    ticks,               \* clock advances so far
    management_token,    \* TokenVault._management_token (NoneStr for None)
    token_expiry,        \* TokenVault._token_expiry
    mpc,                 \* mpc[c]: position of caller c in get_management_token
    mcall,               \* mcall[c]: record of the current or last invocation of c
    mgmt_store,          \* the last grant stored in the cache
    invocations,         \* invocations so far
    requests             \* client-credentials requests sent so far

clockVars == <<now, ticks>>
vaultVars == <<management_token, token_expiry, mpc, mcall, mgmt_store, invocations,
               requests>>

\* OktaAuth key cache and validation
VARIABLES
    jwks_cache,          \* OktaAuth._jwks_cache: <<>> for None, else <<key set>>
    jwks_cache_time,     \* OktaAuth._jwks_cache_time
    vpc,                 \* vpc[v]: position of request v in validate_id_token
    vcall,               \* vcall[v]: record of the current or last call of v
    validations          \* validate_id_token calls so far

jwksVars == <<jwks_cache, jwks_cache_time, vpc, vcall, validations>>

\* inventory
VARIABLES
    granted,             \* granted[c]: scopes the resource AS grants caller c
    products,            \* the Product objects of DEMO_PRODUCTS, by sku
    effects,             \* write operations that took effect, by caller
    last,                \* the last endpoint call and its response
    ops                  \* endpoint calls so far

invVars == <<granted, products, effects, last, ops>>

\* one validate_id_token call on a given key set
VARIABLES
    val_token,           \* the token handed to validate_id_token
    val_jwks,            \* the key set get_jwks returned to it
    val_result           \* what validate_id_token returned or raised

valVars == <<val_token, val_jwks, val_result>>

\* the exchange operations called one by one
VARIABLES
    xcall,               \* xcall[i]: invocation i of an exchange operation
    xminted,             \* the client assertions minted so far, in order
    xsent                \* the requests sent to token endpoints so far, in order

exchVars == <<xcall, xminted, xsent>>

\* one vault lookup: get_salesforce_token or get_user_id_from_okta_sub
VARIABLES
    lk_op,               \* the lookup called
    lk_vault_token,      \* the vault_token argument (NoneStr for None)
    lk_management,       \* how get_management_token ends when the lookup calls it
    lk_answer,           \* what the vault's user API answers
    lk_result            \* what the lookup returned or raised

lookupVars == <<lk_op, lk_vault_token, lk_management, lk_answer, lk_result>>

\* concurrent request flows of different users
VARIABLES
    fl                   \* fl[f]: the local values of the request of user f

flowVars == <<fl>>

\* one process_message call of the AI orchestrator
VARIABLES
    ag                   \* the locals of process_message

agentVars == <<ag>>

\* chat requests and their vault lookups
VARIABLES
    ch                   \* ch[c]: the locals of chat request c

chatVars == <<ch>>

\* an InventoryTools instance
VARIABLES
    tl                   \* its scope list, products, alerts and last ToolCall

toolVars == <<tl>>

\* concurrent get_jwks calls
VARIABLES
    gj                   \* the calls in flight and how the last one ended

raceVars == <<gj>>

vars == <<accessVars, clockVars, vaultVars, jwksVars, invVars, valVars, exchVars,
          lookupVars,
          flowVars,
          agentVars,
          chatVars,
          toolVars,
          raceVars>>

\* what the steps of one component leave alone
exceptAccess == <<clockVars, vaultVars, jwksVars, invVars, valVars, exchVars, lookupVars,
    flowVars,
    agentVars,
    chatVars,
    toolVars,
    raceVars>>
exceptVault == <<accessVars, jwksVars, invVars, valVars, exchVars, lookupVars,
    flowVars,
    agentVars,
    chatVars,
    toolVars,
    raceVars>>
exceptJwks == <<accessVars, vaultVars, invVars, valVars, exchVars, lookupVars,
    flowVars,
    agentVars,
    chatVars,
    toolVars,
    raceVars>>
exceptInventory == <<accessVars, clockVars, vaultVars, jwksVars, valVars, exchVars, lookupVars,
    flowVars,
    agentVars,
    chatVars,
    toolVars,
    raceVars>>
exceptValidate == <<accessVars, clockVars, vaultVars, jwksVars, invVars, exchVars, lookupVars,
    flowVars,
    agentVars,
    chatVars,
    toolVars,
    raceVars>>
exceptLookup == <<accessVars, clockVars, vaultVars, jwksVars, invVars, valVars, exchVars,
    flowVars,
    agentVars,
    chatVars,
    toolVars,
    raceVars>>
exceptFlows == <<accessVars, clockVars, mpc, mcall, mgmt_store, invocations, requests,
                 vpc, vcall, validations, invVars, valVars, exchVars, lookupVars,
    agentVars,
    chatVars,
    toolVars,
    raceVars>>
exceptAgent == <<accessVars, clockVars, vaultVars, jwksVars, invVars, valVars, exchVars,
                 lookupVars, flowVars,
    chatVars,
    toolVars,
    raceVars>>
exceptChat == <<accessVars, clockVars, vaultVars, jwksVars, invVars, valVars, exchVars,
                lookupVars, flowVars, agentVars,
    toolVars,
    raceVars>>
exceptTools == <<accessVars, clockVars, vaultVars, jwksVars, invVars, valVars, exchVars,
                 lookupVars, flowVars, agentVars, chatVars,
    raceVars>>
exceptRace == <<accessVars, vaultVars, vpc, vcall, validations, invVars, valVars, exchVars,
                lookupVars, flowVars, agentVars, chatVars, toolVars>>
\* the exchange operations read the settings and use the credential cache
exceptExchange == <<accessVars, clockVars, mpc, mcall, mgmt_store, invocations, requests,
                    jwksVars, invVars, valVars,
                    lookupVars,
    flowVars,
    agentVars,
    chatVars,
    toolVars,
    raceVars>>


(***************************************************************************)
(* Upstream answers                                                        *)
(***************************************************************************)
\* An answer of a token endpoint: an HTTP response (status, whether the body
\* parses as a JSON object, and the members the code reads), or no response
\* at all (timeout or connection error inside httpx).
Answer(kind, status, json, id_token, access_token, has_scope, scope, error, desc) ==
    [kind |-> kind, status |-> status, json |-> json, id_token |-> id_token,
     access_token |-> access_token, has_scope |-> has_scope, scope |-> scope,
     error |-> error, error_description |-> desc]

NoAnswer == Answer("none", 0, FALSE, NoneTok, NoneTok, FALSE, <<>>, NoneStr, NoneStr)
Timeout == Answer("timeout", 0, FALSE, NoneTok, NoneTok, FALSE, <<>>, NoneStr, NoneStr)
NotJson(status) == Answer("http", status, FALSE, NoneTok, NoneTok, FALSE, <<>>, NoneStr, NoneStr)
ErrorBody(status, error, desc) ==
    Answer("http", status, TRUE, NoneTok, NoneTok, FALSE, <<>>, error, desc)

\* what the org authorization server may answer to step 1 of request r
OrgAnswers(r) ==
    {Answer("http", 200, TRUE, t, NoneTok, FALSE, <<>>, NoneStr, NoneStr) :
        t \in {IdJag(r), NoneTok}}
    \cup {ErrorBody(400, "invalid_grant", d) : d \in {NoneStr, "assertion rejected"}}
    \cup {ErrorBody(401, "invalid_client", NoneStr), NotJson(200), NotJson(502), Timeout}

\* scope lists a resource authorization server may grant: non-empty
\* sub-lists of the requested list, serialised space-delimited (RFC 6749, 3.3)
GrantLists ==
    {<<"inventory:read">>, <<"inventory:write">>,
     <<"inventory:read", "inventory:alert">>,
     <<"inventory:read", "inventory:write", "inventory:alert">>}

\* what the resource authorization server may answer to step 2 of request r;
\* the scope member is optional in a token response
ResourceAnswers(r) ==
    {Answer("http", 200, TRUE, NoneTok, AccessTok(r), TRUE, PyJoin(StrList(g)), NoneStr, NoneStr) :
        g \in GrantLists}
    \cup {Answer("http", 200, TRUE, NoneTok, AccessTok(r), FALSE, <<>>, NoneStr, NoneStr)}
    \cup {ErrorBody(400, "invalid_scope", "policy denied"),
          ErrorBody(403, "access_denied", NoneStr), ErrorBody(403, NoneStr, NoneStr)}
    \cup {NotJson(200), NotJson(502), Timeout}

(***************************************************************************)
(* OktaAuth: the two exchanges (auth/okta_auth.py)                         *)
(***************************************************************************)
\* outcome of a call: it returned a value or it raised
Outcome(kind, err, tok, success, has_scope, scope, error, desc) ==
    [kind |-> kind, err |-> err, tok |-> tok, success |-> success,
     has_scope |-> has_scope, scope |-> scope,
     error |-> error, error_description |-> desc]

NotCalled == Outcome("none", "", NoneTok, FALSE, FALSE, <<>>, NoneStr, NoneStr)
Raised(err) == Outcome("raise", err, NoneTok, FALSE, FALSE, <<>>, NoneStr, NoneStr)
Returned(tok) == Outcome("return", "", tok, FALSE, FALSE, <<>>, NoneStr, NoneStr)

\* generate_wlp_assertion: raises when no private key is configured,
\* otherwise mints an assertion with a fresh jti (uuid4, taken as never
\* repeating: the n+1st value differs from the n before it)
generate_wlp_assertion_FixedJti(key, n) ==
    IF ~key THEN [kind |-> "raise", err |-> "SigningKeyMissing", jti |-> 0]
    ELSE [kind |-> "return", err |-> "", jti |-> 1]

generate_wlp_assertion_NoKeyCheck(key, n) ==
    [kind |-> "return", err |-> "", jti |-> n + 1]

generate_wlp_assertion(key, n) ==
    IF ~key THEN [kind |-> "raise", err |-> "SigningKeyMissing", jti |-> 0]
    ELSE [kind |-> "return", err |-> "", jti |-> n + 1]

\* exchange_for_id_jag after its request: what it does with the answer
exchange_for_id_jag_NoRaise(a) ==
    IF a.kind = "timeout" THEN Raised("TransportError")
    ELSE IF ~a.json THEN Raised("DecodeError")
    ELSE Returned(a.id_token)

exchange_for_id_jag(a) ==
    IF a.kind = "timeout" THEN Raised("TransportError")
    ELSE IF a.status # 200
         THEN IF ~a.json THEN Raised("DecodeError") ELSE Raised("ExchangeFailed")
    ELSE IF ~a.json THEN Raised("DecodeError")
    ELSE Returned(a.id_token)

\* exchange_id_jag_for_token after its request: what it does with the answer
exchange_id_jag_for_token(a) ==
    IF a.kind = "timeout" THEN Raised("TransportError")
    ELSE IF ~a.json THEN Raised("DecodeError")
    ELSE IF a.status # 200
         THEN Outcome("return", "", NoneTok, FALSE, FALSE, <<>>, a.error, a.error_description)
    ELSE Outcome("return", "", a.access_token, TRUE, a.has_scope, a.scope, NoneStr, NoneStr)


(***************************************************************************)
(* The user-access check (routers/user.py, get_user_access)                *)
(***************************************************************************)
GroupChoices == {{}, {"Everyone"}, {"Everyone", "ProGear-Warehouse"}}
\* how the vault lookups of the Salesforce section ended
SfOutcomes == {"connected", "not_connected", "raise"}

SalesforceAccess(connected, scopes) == [connected |-> connected, scopes |-> scopes]
InventoryAccess(authorized, scopes) == [authorized |-> authorized, scopes |-> scopes]
NoResponse ==
    [kind |-> "none", error |-> "", salesforce |-> SalesforceAccess(FALSE, <<>>),
     inventory |-> InventoryAccess(FALSE, <<>>)]
\* the UserAccess body of a normal response
UserAccess(sfa, inva) ==
    [kind |-> "ok", error |-> "", salesforce |-> sfa, inventory |-> inva]
\* the request aborted by an exception that left the handler
ErrorResponse(err) ==
    [kind |-> "error", error |-> err, salesforce |-> SalesforceAccess(FALSE, <<>>),
     inventory |-> InventoryAccess(FALSE, <<>>)]

\* Salesforce section: connected only when the lookups said so
SalesforceSection(o) ==
    IF o = "connected" THEN SalesforceAccess(TRUE, StrList(SalesforceScopes))
    ELSE SalesforceAccess(FALSE, <<>>)

\* the except clause around the two exchanges: log, keep the denial
InventoryExcept_Propagate(sfa, err) == ErrorResponse(err)

InventoryExcept_Grant(sfa, err) ==
    UserAccess(sfa, InventoryAccess(TRUE, StrList(FallbackScopes)))

InventoryExcept(sfa, err) == UserAccess(sfa, InventoryAccess(FALSE, <<>>))

\* the scope list recorded from a successful step-2 result
RecordedScopes_Requested(result) == StrList(inventory_scopes)

RecordedScopes(result) == PySplit(result.scope)

\* what the handler answers once exchange_id_jag_for_token is over
AfterStep2(sfa, result) ==
    IF result.kind = "raise" THEN InventoryExcept(sfa, result.err)
    ELSE IF result.success
         THEN IF ~result.has_scope
              THEN InventoryExcept(sfa, "AttributeError")   \* None.split
              ELSE UserAccess(sfa, InventoryAccess(TRUE, RecordedScopes(result)))
    ELSE UserAccess(sfa, InventoryAccess(FALSE, <<>>))

\* degraded mode: access from group membership
GroupAccess(gs) ==
    IF gs \cap FallbackGroups # {}
    THEN InventoryAccess(TRUE, StrList(FallbackScopes))
    ELSE InventoryAccess(FALSE, <<>>)

\* a request to a token endpoint
TokenRequest(r, step, subject, jti, scope) ==
    [flow |-> r, step |-> step, subject |-> subject, jti |-> jti, scope |-> scope]
Step1Scope == <<"openid", SP, "profile", SP, "email">>

AccessInit ==
    /\ inventory_auth_server_id \in BOOLEAN
    /\ wlp_private_key \in BOOLEAN
    /\ groups \in [Reqs -> GroupChoices]
    /\ pc = [r \in Reqs |-> "start"]
    /\ sf = [r \in Reqs |-> "none"]
    /\ up1 = [r \in Reqs |-> NoAnswer]
    /\ up2 = [r \in Reqs |-> NoAnswer]
    /\ s1 = [r \in Reqs |-> NotCalled]
    /\ s2 = [r \in Reqs |-> NotCalled]
    /\ resp = [r \in Reqs |-> NoResponse]
    /\ sent = {}
    /\ jti_next = 0

\* lines 39-55: the vault lookups, ended one of the ways they can end
SalesforceCheck(r, o) ==
    /\ pc[r] = "start"
    /\ sf' = [sf EXCEPT ![r] = o]
    /\ pc' = [pc EXCEPT ![r] = "inventory"]
    /\ UNCHANGED <<inventory_auth_server_id, wlp_private_key, groups,
                   up1, up2, s1, s2, resp, sent, jti_next>>
    /\ UNCHANGED exceptAccess

\* lines 57-63 and 79-90: group fallback, or step 1 up to its request
InventoryBegin(r) ==
    /\ pc[r] = "inventory"
    /\ LET sfa == SalesforceSection(sf[r])
           ca == generate_wlp_assertion(wlp_private_key, jti_next)
       IN  IF ~inventory_auth_server_id
           THEN /\ resp' = [resp EXCEPT ![r] = UserAccess(sfa, GroupAccess(groups[r]))]
                /\ pc' = [pc EXCEPT ![r] = "done"]
                /\ UNCHANGED <<s1, sent, jti_next>>
           ELSE IF ca.kind = "raise"
           THEN /\ s1' = [s1 EXCEPT ![r] = Raised(ca.err)]
                /\ resp' = [resp EXCEPT ![r] = InventoryExcept(sfa, ca.err)]
                /\ pc' = [pc EXCEPT ![r] = "done"]
                /\ UNCHANGED <<sent, jti_next>>
           ELSE /\ sent' = sent \cup {TokenRequest(r, 1, IdToken(r), ca.jti, Step1Scope)}
                /\ jti_next' = ca.jti
                /\ pc' = [pc EXCEPT ![r] = "await1"]
                /\ UNCHANGED <<s1, resp>>
    /\ UNCHANGED <<inventory_auth_server_id, wlp_private_key, groups, sf, up1, up2, s2>>
    /\ UNCHANGED exceptAccess

\* lines 63-70: step 1 ends; when it returned, step 2 up to its request
OrgAnswer(r, a) ==
    /\ pc[r] = "await1"
    /\ up1' = [up1 EXCEPT ![r] = a]
    /\ LET sfa == SalesforceSection(sf[r])
           o == exchange_for_id_jag(a)
           ca == generate_wlp_assertion(wlp_private_key, jti_next)
       IN  /\ s1' = [s1 EXCEPT ![r] = o]
           /\ IF o.kind = "raise"
              THEN /\ resp' = [resp EXCEPT ![r] = InventoryExcept(sfa, o.err)]
                   /\ pc' = [pc EXCEPT ![r] = "done"]
                   /\ UNCHANGED <<s2, sent, jti_next>>
              ELSE IF ca.kind = "raise"
              THEN /\ s2' = [s2 EXCEPT ![r] = Raised(ca.err)]
                   /\ resp' = [resp EXCEPT ![r] = InventoryExcept(sfa, ca.err)]
                   /\ pc' = [pc EXCEPT ![r] = "done"]
                   /\ UNCHANGED <<sent, jti_next>>
              ELSE /\ sent' = sent \cup {TokenRequest(r, 2, o.tok, ca.jti,
                                                      PyJoin(StrList(inventory_scopes)))}
                   /\ jti_next' = ca.jti
                   /\ pc' = [pc EXCEPT ![r] = "await2"]
                   /\ UNCHANGED <<s2, resp>>
    /\ UNCHANGED <<inventory_auth_server_id, wlp_private_key, groups, sf, up2>>
    /\ UNCHANGED exceptAccess

\* lines 66-90: step 2 ends and the handler answers
ResourceAnswer(r, a) ==
    /\ pc[r] = "await2"
    /\ up2' = [up2 EXCEPT ![r] = a]
    /\ s2' = [s2 EXCEPT ![r] = exchange_id_jag_for_token(a)]
    /\ resp' = [resp EXCEPT ![r] =
                   AfterStep2(SalesforceSection(sf[r]), exchange_id_jag_for_token(a))]
    /\ pc' = [pc EXCEPT ![r] = "done"]
    /\ UNCHANGED <<inventory_auth_server_id, wlp_private_key, groups, sf,
                   up1, s1, sent, jti_next>>
    /\ UNCHANGED exceptAccess


(***************************************************************************)
(* TokenVault.get_management_token (auth/token_vault.py)                   *)
(***************************************************************************)
NumCallers == 2          \* tasks that may be inside get_management_token at once
MaxInvocations == 3      \* invocations of get_management_token in a run
MaxTicks == 2            \* clock advances in a run
StartTime == 100000      \* time.time() when the process starts
DefaultExpiresIn == 86400
SafetyMargin == 60

Callers == 1..NumCallers
\* the clock advances between steps by one of these amounts
VaultTimeSteps == {60, 86280}


\* an answer of the vault token endpoint to a client-credentials request
GrantAnswer(kind, status, json, has_token, token, has_expires_in, expires_in) ==
    [kind |-> kind, status |-> status, json |-> json, has_token |-> has_token,
     token |-> token, has_expires_in |-> has_expires_in, expires_in |-> expires_in]

NoGrantAnswer == GrantAnswer("none", 0, FALSE, FALSE, NoneStr, FALSE, 0)

GrantAnswers ==
    {GrantAnswer("http", 200, TRUE, TRUE, "mgmt-a", TRUE, 180),
     GrantAnswer("http", 200, TRUE, TRUE, "mgmt-b", TRUE, 180),
     GrantAnswer("http", 200, TRUE, TRUE, "mgmt-b", TRUE, 60),
     GrantAnswer("http", 200, TRUE, TRUE, "mgmt-a", FALSE, 0),
          GrantAnswer("http", 200, TRUE, FALSE, NoneStr, TRUE, 180),
          GrantAnswer("http", 200, FALSE, FALSE, NoneStr, FALSE, 0),
          GrantAnswer("http", 401, TRUE, FALSE, NoneStr, FALSE, 0),
          GrantAnswer("http", 503, FALSE, FALSE, NoneStr, FALSE, 0),
          GrantAnswer("timeout", 0, FALSE, FALSE, NoneStr, FALSE, 0)}

\* line 29: the cached token is used while it is set and not yet expired
CacheFresh_Never(tok, expiry, t) == FALSE

CacheFresh(tok, expiry, t) == tok # NoneStr /\ tok # "" /\ t < expiry

\* line 51: expiry of a grant stored at time t
NewExpiry_NoMargin(t, a) ==
    t + (IF a.has_expires_in THEN a.expires_in ELSE DefaultExpiresIn)

NewExpiry(t, a) ==
    t + (IF a.has_expires_in THEN a.expires_in ELSE DefaultExpiresIn) - SafetyMargin

\* lines 43-53: what get_management_token does with the answer
GrantOutcome(a) ==
    IF a.kind = "timeout" THEN [kind |-> "raise", err |-> "TransportError", tok |-> NoneStr]
    ELSE IF a.status # 200 THEN [kind |-> "raise", err |-> "VaultAuthFailed", tok |-> NoneStr]
    ELSE IF ~a.json THEN [kind |-> "raise", err |-> "DecodeError", tok |-> NoneStr]
    ELSE IF ~a.has_token THEN [kind |-> "raise", err |-> "KeyError", tok |-> NoneStr]
    ELSE [kind |-> "return", err |-> "", tok |-> a.token]

NoStore == [present |-> FALSE, at |-> 0, lifetime |-> 0, token |-> NoneStr]
\* the grant of an answer get_management_token stores
Stored(t, a) ==
    [present |-> TRUE, at |-> t,
     lifetime |-> IF a.has_expires_in THEN a.expires_in ELSE DefaultExpiresIn,
     token |-> a.token]
\* the window in which a stored grant may be served from the cache
InWindow(st, t) == st.present /\ t < st.at + st.lifetime - SafetyMargin

NoCall ==
    [started |-> FALSE, in_window |-> FALSE, cached |-> NoneStr, issued |-> FALSE,
     outcome |-> [kind |-> "none", err |-> "", tok |-> NoneStr],
     replaced |-> FALSE, kept |-> FALSE]

ClockInit ==
    /\ now = StartTime
    /\ ticks = 0

VaultInit ==
    /\ management_token = NoneStr
    /\ token_expiry = 0
    /\ mpc = [c \in Callers |-> "idle"]
    /\ mcall = [c \in Callers |-> NoCall]
    /\ mgmt_store = NoStore
    /\ invocations = 0
    /\ requests = 0

\* the clock advances
VaultTick(d) ==
    /\ ticks < MaxTicks
    /\ now' = now + d
    /\ ticks' = ticks + 1
    /\ UNCHANGED vaultVars
    /\ UNCHANGED exceptVault

\* lines 25-41: a task enters get_management_token; a fresh cache is
\* returned at once, otherwise the client-credentials request goes out
ManagementCall(c) ==
    /\ mpc[c] \in {"idle", "done"}
    /\ invocations < MaxInvocations
    /\ invocations' = invocations + 1
    /\ LET base == [NoCall EXCEPT !.started = TRUE,
                                  !.in_window = InWindow(mgmt_store, now),
                                  !.cached = mgmt_store.token]
       IN  IF CacheFresh(management_token, token_expiry, now)
           THEN /\ mcall' = [mcall EXCEPT ![c] =
                       [base EXCEPT !.outcome = [kind |-> "return", err |-> "",
                                                 tok |-> management_token]]]
                /\ mpc' = [mpc EXCEPT ![c] = "done"]
                /\ UNCHANGED requests
           ELSE /\ mcall' = [mcall EXCEPT ![c] = [base EXCEPT !.issued = TRUE]]
                /\ mpc' = [mpc EXCEPT ![c] = "await"]
                /\ requests' = requests + 1
    /\ UNCHANGED <<now, ticks, management_token, token_expiry, mgmt_store>>
    /\ UNCHANGED exceptVault

\* lines 43-53: the answer arrives; a grant replaces token and expiry
ManagementAnswer(c, a) ==
    /\ mpc[c] = "await"
    /\ LET o == GrantOutcome(a)
       IN  /\ IF o.kind = "return"
              THEN /\ management_token' = a.token
                   /\ token_expiry' = NewExpiry(now, a)
                   /\ mgmt_store' = Stored(now, a)
              ELSE UNCHANGED <<management_token, token_expiry, mgmt_store>>
           /\ mcall' = [mcall EXCEPT ![c] =
                  [@ EXCEPT !.outcome = o,
                            !.replaced = /\ a.has_token
                                         /\ management_token' = a.token
                                         /\ token_expiry' = now + Stored(now, a).lifetime
                                                                - SafetyMargin,
                            !.kept = /\ management_token' = management_token
                                     /\ token_expiry' = token_expiry]]
    /\ mpc' = [mpc EXCEPT ![c] = "done"]
    /\ UNCHANGED <<now, ticks, invocations, requests>>
    /\ UNCHANGED exceptVault

VaultNext ==
    \/ \E d \in VaultTimeSteps : VaultTick(d)
    \/ \E c \in Callers : ManagementCall(c)
    \/ \E c \in Callers : \E a \in GrantAnswers : ManagementAnswer(c, a)


(***************************************************************************)
(* OktaAuth.get_jwks and validate_id_token (auth/okta_auth.py)             *)
(***************************************************************************)
NumValidators == 2       \* requests that may be inside validate_id_token at once
MaxValidations == 2      \* validate_id_token calls in a run
CacheTtl == 3600

Validators == 1..NumValidators
JwksTimeSteps == {1800}


\* a JWK Set: its "keys" member, each key named by its kid
Jwks(kids) == [keys |-> kids]
JwksChoices == {Jwks({"k1"}), Jwks({})}

JwksAnswer(kind, status, json, jwks) ==
    [kind |-> kind, status |-> status, json |-> json, jwks |-> jwks]
NoJwksAnswer == JwksAnswer("none", 0, FALSE, Jwks({}))
JwksAnswers ==
    {JwksAnswer("http", 200, TRUE, j) : j \in JwksChoices}
    \cup {JwksAnswer("http", 200, FALSE, Jwks({})),
          JwksAnswer("http", 503, FALSE, Jwks({})),
          JwksAnswer("timeout", 0, FALSE, Jwks({}))}

\* an identity token as the validator sees it: header kid, the key that
\* signed it, and the claims the checks read
IdTok(wellformed, kid, signer, expired, iss_ok, aud_ok, has_sub, sub, has_groups, grps) ==
    [wellformed |-> wellformed, kid |-> kid, signer |-> signer, expired |-> expired,
     iss_ok |-> iss_ok, aud_ok |-> aud_ok, has_sub |-> has_sub, sub |-> sub,
     has_groups |-> has_groups, groups |-> grps]

TokenSamples ==
    {IdTok(TRUE, "k1", "k1", FALSE, TRUE, TRUE, TRUE, "user-42", TRUE, {"Admins"}),
     IdTok(TRUE, "k1", "k1", TRUE, TRUE, FALSE, TRUE, "user-42", FALSE, {})}

\* outcome of validate_id_token
Validated(sub, grps) ==
    [kind |-> "return", status |-> 200, detail |-> "", sub |-> sub, groups |-> grps]
Rejected(status, detail) ==
    [kind |-> "raise", status |-> status, detail |-> detail, sub |-> NoneStr, groups |-> {}]
NotValidated == [kind |-> "none", status |-> 0, detail |-> "", sub |-> NoneStr, groups |-> {}]

\* line 38: the cached key set is used while it is set, non-empty as a dict
\* and younger than the TTL
JwksFresh_Never(cache, cache_time, t) == FALSE

JwksFresh_NoTtl(cache, cache_time, t) == cache # <<>>

JwksFresh(cache, cache_time, t) ==
    /\ cache # <<>>
    /\ DOMAIN cache[1] # {}
    /\ (t - cache_time) < CacheTtl

\* outcome of get_jwks
JwksOutcome(kind, err, keys) == [kind |-> kind, err |-> err, keys |-> keys]
JwksNotCalled == JwksOutcome("none", "", <<>>)

\* lines 41-43: a failed fetch leaves get_jwks by an exception
GetJwksFailure_Stale(cache, err) ==
    IF cache # <<>> THEN JwksOutcome("return", "", cache) ELSE JwksOutcome("raise", err, <<>>)

GetJwksFailure(cache, err) == JwksOutcome("raise", err, <<>>)

\* lines 42-43: which answers make the fetch fail, and how
FetchError(a) ==
    IF a.kind = "timeout" THEN "TransportError"
    ELSE IF a.status < 200 \/ a.status > 299 THEN "HTTPStatusError"
    ELSE IF ~a.json THEN "DecodeError"
    ELSE ""

\* lines 59-67: the key of the set whose kid equals the header's kid; a
\* header without kid and a key without kid both read as None
FindKey_Any(jwks, kid) == jwks.keys # {}

FindKey(jwks, kid) == kid \in jwks.keys

\* jwt.decode returned the payload
Decoded == [kind |-> "payload", status |-> 0, detail |-> "", sub |-> NoneStr, groups |-> {}]

\* lines 74-80 and 91-94: jwt.decode checks the signature, then exp, then
\* issuer and audience; its exceptions become 401 responses
DecodeToken_NoAudience(tok) ==
    IF tok.signer # tok.kid THEN Rejected(401, "Invalid token")
    ELSE IF tok.expired THEN Rejected(401, "Token has expired")
    ELSE IF ~tok.iss_ok THEN Rejected(401, "Invalid token")
    ELSE Decoded

DecodeToken(tok) ==
    IF tok.signer # tok.kid THEN Rejected(401, "Invalid token")
    ELSE IF tok.expired THEN Rejected(401, "Token has expired")
    ELSE IF ~tok.iss_ok \/ ~tok.aud_ok THEN Rejected(401, "Invalid token")
    ELSE Decoded

\* lines 82-89: UserInfo from the payload; sub is a required str
UserInfoOf_NoGroups(tok) ==
    IF ~tok.has_sub THEN Rejected(500, "ValidationError")
    ELSE Validated(tok.sub, {})

UserInfoOf(tok) ==
    IF ~tok.has_sub THEN Rejected(500, "ValidationError")
    ELSE Validated(tok.sub, IF tok.has_groups THEN tok.groups ELSE {})

\* lines 55-94: validate_id_token once it has the key set
ValidateWithKeys(jwks, tok) ==
    IF ~tok.wellformed THEN Rejected(401, "Invalid token")
    ELSE IF ~FindKey(jwks, tok.kid) THEN Rejected(401, "Invalid token: key not found")
    ELSE IF DecodeToken(tok).kind = "raise" THEN DecodeToken(tok)
    ELSE UserInfoOf(tok)

\* lines 51-54: an exception of get_jwks is not one the handler catches
ValidateAfterJwks(jo, tok) ==
    IF jo.kind = "raise" THEN Rejected(500, jo.err)
    ELSE ValidateWithKeys(jo.keys[1], tok)

NoValidation ==
    [started |-> FALSE, token |-> IdTok(FALSE, "", "", FALSE, FALSE, FALSE, FALSE, NoneStr, FALSE, {}),
     current_time |-> 0, in_ttl |-> FALSE, cached |-> <<>>, issued |-> FALSE,
     answer |-> [kind |-> "none", status |-> 0, json |-> FALSE],
     jwks |-> JwksNotCalled, result |-> NotValidated]

JwksInit ==
    /\ jwks_cache = <<>>
    /\ jwks_cache_time = 0
    /\ vpc = [v \in Validators |-> "idle"]
    /\ vcall = [v \in Validators |-> NoValidation]
    /\ validations = 0

JwksTick(d) ==
    /\ ticks < MaxTicks
    /\ now' = now + d
    /\ ticks' = ticks + 1
    /\ UNCHANGED jwksVars
    /\ UNCHANGED exceptJwks

\* validate_id_token enters get_jwks (lines 36-42): a fresh cache is
\* returned and validation runs to its end, otherwise the fetch goes out
ValidateCall(v, tok) ==
    /\ vpc[v] \in {"idle", "done"}
    /\ validations < MaxValidations
    /\ validations' = validations + 1
    /\ LET base == [NoValidation EXCEPT !.started = TRUE, !.token = tok,
                                        !.current_time = now,
                                        !.in_ttl = /\ jwks_cache # <<>>
                                                   /\ now < jwks_cache_time + CacheTtl,
                                        !.cached = jwks_cache]
           jo == JwksOutcome("return", "", jwks_cache)
       IN  IF JwksFresh(jwks_cache, jwks_cache_time, now)
           THEN /\ vcall' = [vcall EXCEPT ![v] =
                       [base EXCEPT !.jwks = jo, !.result = ValidateAfterJwks(jo, tok)]]
                /\ vpc' = [vpc EXCEPT ![v] = "done"]
           ELSE /\ vcall' = [vcall EXCEPT ![v] = [base EXCEPT !.issued = TRUE]]
                /\ vpc' = [vpc EXCEPT ![v] = "await"]
    /\ UNCHANGED <<now, ticks, jwks_cache, jwks_cache_time>>
    /\ UNCHANGED exceptJwks

\* lines 42-45: the answer of the keys endpoint arrives
JwksResponse(v, a) ==
    /\ vpc[v] = "await"
    /\ IF FetchError(a) # ""
       THEN LET jo == GetJwksFailure(jwks_cache, FetchError(a))
            IN  /\ vcall' = [vcall EXCEPT ![v] =
                        [@ EXCEPT !.answer = [kind |-> a.kind, status |-> a.status,
                                                json |-> a.json],
                                  !.jwks = jo,
                                  !.result = ValidateAfterJwks(jo, vcall[v].token)]]
                /\ vpc' = [vpc EXCEPT ![v] = "done"]
                /\ UNCHANGED <<jwks_cache, jwks_cache_time>>
       ELSE /\ jwks_cache' = <<a.jwks>>
            /\ jwks_cache_time' = vcall[v].current_time
            /\ vcall' = [vcall EXCEPT ![v] =
                    [@ EXCEPT !.answer = [kind |-> a.kind, status |-> a.status,
                                          json |-> a.json]]]
            /\ vpc' = [vpc EXCEPT ![v] = "fetched"]
    /\ UNCHANGED <<now, ticks, validations>>
    /\ UNCHANGED exceptJwks

\* line 47, after the client was closed: get_jwks returns what the cache
\* holds now, and validation runs to its end
JwksReturn(v) ==
    /\ vpc[v] = "fetched"
    /\ LET jo == JwksOutcome("return", "", jwks_cache)
       IN  vcall' = [vcall EXCEPT ![v] =
               [@ EXCEPT !.jwks = jo, !.result = ValidateAfterJwks(jo, vcall[v].token)]]
    /\ vpc' = [vpc EXCEPT ![v] = "done"]
    /\ UNCHANGED <<now, ticks, jwks_cache, jwks_cache_time, validations>>
    /\ UNCHANGED exceptJwks

JwksNext ==
    \/ \E d \in JwksTimeSteps : JwksTick(d)
    \/ \E v \in Validators : \E tok \in TokenSamples : ValidateCall(v, tok)
    \/ \E v \in Validators : \E a \in JwksAnswers : JwksResponse(v, a)
    \/ \E v \in Validators : JwksReturn(v)

(***************************************************************************)
(* validate_id_token as a function of the token and the key set            *)
(***************************************************************************)
\* kids a token header may carry (NoneStr: no kid) and keys that may sign
HeaderKids == {"k1", "k9", NoneStr}
SigningKeys == {"k1", "k9"}
\* key sets get_jwks may hand over; Jwks({NoneStr}) holds one key without kid
KeySets == {Jwks({"k1"}), Jwks({"k1", "k2"}), Jwks({}), Jwks({NoneStr})}

\* every identity token of the sample space
Tokens ==
    {IdTok(w, kid, signer, expired, iss, aud, hs, IF hs THEN "user-42" ELSE NoneStr, hg,
           IF hg THEN gs ELSE {}) :
        w \in BOOLEAN, kid \in HeaderKids, signer \in SigningKeys, expired \in BOOLEAN,
        iss \in BOOLEAN, aud \in BOOLEAN, hs \in BOOLEAN, hg \in BOOLEAN,
        gs \in {{}, {"Admins", "ProGear-Sales"}}}

ValidateInit ==
    /\ val_token \in Tokens
    /\ val_jwks \in KeySets
    /\ val_result = NotValidated

ValidateAtRest ==
    /\ val_token = NoValidation.token
    /\ val_jwks = Jwks({})
    /\ val_result = NotValidated

\* validate_id_token runs on the key set get_jwks returned
ValidateToken ==
    /\ val_result = NotValidated
    /\ val_result' = ValidateWithKeys(val_jwks, val_token)
    /\ UNCHANGED <<val_token, val_jwks>>
    /\ UNCHANGED exceptValidate

ValidateNext == ValidateToken


(***************************************************************************)
(* The exchange operations, each called on its own (auth/okta_auth.py,     *)
(* auth/token_vault.py)                                                    *)
(***************************************************************************)
NumExchanges == 2        \* invocations of exchange operations in a run

Exchanges == 1..NumExchanges
OktaOps == {"exchange_for_id_jag", "exchange_id_jag_for_token"}
VaultOps == {"exchange_okta_token_for_vault", "get_management_token"}
ExchangeOps == OktaOps \cup VaultOps

\* exchange_okta_token_for_vault after its request (token_vault.py 77-91)
exchange_okta_token_for_vault(a) ==
    IF a.kind = "timeout" THEN Raised("TransportError")
    ELSE IF ~a.json THEN Raised("DecodeError")
    ELSE IF a.status # 200
         THEN Outcome("return", "", NoneTok, FALSE, FALSE, <<>>, a.error, a.error_description)
    ELSE Outcome("return", "", a.access_token, TRUE, FALSE, <<>>, NoneStr, NoneStr)

\* what the token endpoint of an operation may answer to invocation i
ExchangeAnswers(op, i) ==
    IF op = "exchange_for_id_jag" THEN OrgAnswers(i)
    ELSE IF op = "get_management_token" THEN GrantAnswers
    ELSE ResourceAnswers(i)

\* the result of an operation: returned or raised, and for the operations
\* that return a dict whether it is one and what its "success" member says
ExchangeResult(kind, err, dict, success) ==
    [kind |-> kind, err |-> err, dict |-> dict, success |-> success]
NoResult == ExchangeResult("none", "", FALSE, FALSE)

\* what an operation does with the answer to its request
ResultOf(op, a) ==
    IF op = "get_management_token"
    THEN ExchangeResult(GrantOutcome(a).kind, GrantOutcome(a).err, FALSE, FALSE)
    ELSE LET o == IF op = "exchange_for_id_jag" THEN exchange_for_id_jag(a)
                  ELSE IF op = "exchange_id_jag_for_token" THEN exchange_id_jag_for_token(a)
                  ELSE exchange_okta_token_for_vault(a)
         IN  ExchangeResult(o.kind, o.err,
                            o.kind = "return" /\ op # "exchange_for_id_jag", o.success)

\* requests an operation sends after an answer has come: the code has no
\* loop around client.post and none of its branches posts again
ResendAfter_On401(op, a) == IF a.kind = "http" /\ a.status = 401 THEN 1 ELSE 0

ResendAfter(op, a) == 0

AnswerSeen(a) == [kind |-> a.kind, status |-> a.status, json |-> a.json]
NoExchange ==
    [op |-> "", state |-> "idle", jti |-> 0, nreq |-> 0,
     answer |-> [kind |-> "none", status |-> 0, json |-> FALSE], result |-> NoResult]

ExchangeInit ==
    /\ xcall = [i \in Exchanges |-> NoExchange]
    /\ xminted = <<>>
    /\ xsent = <<>>

\* an operation is called and runs up to its request: the two Okta
\* exchanges mint a client assertion first, get_management_token looks at
\* its cache first
ExchangeCall(i, op) ==
    /\ xcall[i].state = "idle"
    /\ LET ca == generate_wlp_assertion(wlp_private_key, Len(xminted))
           call == [NoExchange EXCEPT !.op = op]
       IN  IF op \in OktaOps /\ ca.kind = "raise"
           THEN /\ xcall' = [xcall EXCEPT ![i] =
                       [call EXCEPT !.state = "done",
                                    !.result = ExchangeResult("raise", ca.err, FALSE, FALSE)]]
                /\ UNCHANGED <<xminted, xsent>>
           ELSE IF op = "get_management_token"
                   /\ CacheFresh(management_token, token_expiry, now)
           THEN /\ xcall' = [xcall EXCEPT ![i] =
                       [call EXCEPT !.state = "done",
                                    !.result = ExchangeResult("return", "", FALSE, FALSE)]]
                /\ UNCHANGED <<xminted, xsent>>
           ELSE /\ xcall' = [xcall EXCEPT ![i] =
                       [call EXCEPT !.state = "await", !.nreq = 1,
                                    !.jti = IF op \in OktaOps THEN ca.jti ELSE 0]]
                /\ xminted' = IF op \in OktaOps
                              THEN Append(xminted, [jti |-> ca.jti, iat |-> now, by |-> i])
                              ELSE xminted
                /\ xsent' = Append(xsent, [by |-> i, op |-> op,
                                           jti |-> IF op \in OktaOps THEN ca.jti ELSE 0])
    /\ UNCHANGED <<management_token, token_expiry>>
    /\ UNCHANGED exceptExchange

\* the answer to the request of invocation i arrives (or the wait for it
\* times out) and the operation ends
ExchangeAnswer(i, op, a) ==
    /\ xcall[i].state = "await"
    /\ xcall[i].op = op
    /\ IF ResendAfter(op, a) > 0
       THEN /\ xcall' = [xcall EXCEPT ![i] =
                   [@ EXCEPT !.nreq = @ + ResendAfter(op, a), !.answer = AnswerSeen(a)]]
            /\ xsent' = Append(xsent, [by |-> i, op |-> op, jti |-> xcall[i].jti])
       ELSE /\ xcall' = [xcall EXCEPT ![i] =
                   [@ EXCEPT !.state = "done", !.answer = AnswerSeen(a),
                             !.result = ResultOf(op, a)]]
            /\ UNCHANGED xsent
    /\ IF op = "get_management_token" /\ ResendAfter(op, a) = 0
          /\ GrantOutcome(a).kind = "return"
       THEN /\ management_token' = a.token
            /\ token_expiry' = NewExpiry(now, a)
       ELSE UNCHANGED <<management_token, token_expiry>>
    /\ UNCHANGED xminted
    /\ UNCHANGED exceptExchange

ExchangeNext ==
    \/ \E i \in Exchanges : \E op \in ExchangeOps : ExchangeCall(i, op)
    \/ \E i \in Exchanges : \E op \in ExchangeOps : \E a \in ExchangeAnswers(op, i) :
           ExchangeAnswer(i, op, a)

(***************************************************************************)
(* TokenVault lookups: get_salesforce_token and get_user_id_from_okta_sub  *)
(* (auth/token_vault.py)                                                   *)
(***************************************************************************)
MaxRecords == 2          \* linked identities of a user, users of a search result

salesforce_connection_name == "salesforce"

\* a linked identity of a vault user: absent members read as None
Identity(provider, access_token, refresh_token) ==
    [provider |-> provider, access_token |-> access_token, refresh_token |-> refresh_token]
Identities ==
    {Identity(p, at, IF at = "sf-at" THEN "sf-rt" ELSE NoneStr) :
        p \in {"salesforce", "google-oauth2"}, at \in {NoneStr, "", "sf-at"}}
    \cup {Identity("salesforce", "sf-at", NoneStr), Identity(NoneStr, "sf-at", "sf-rt")}
\* a record of the user search: user_id may be absent
UserRecords == {[user_id |-> u] : u \in {"auth0|1", "auth0|2", NoneStr}}

\* lists of at most n elements of S
RECURSIVE ListsUpTo(_, _)
ListsUpTo(S, n) ==
    IF n = 0 THEN {<<>>}
    ELSE ListsUpTo(S, n - 1) \cup
         {Append(l, x) : l \in {m \in ListsUpTo(S, n - 1) : Len(m) = n - 1}, x \in S}

\* an answer of the vault's user API: list is the "identities" member of the
\* user record, or the array of users of a search
LookupAnswer(kind, status, json, has_list, list) ==
    [kind |-> kind, status |-> status, json |-> json, has_list |-> has_list, list |-> list]
NoLookupAnswer == LookupAnswer("none", 0, FALSE, FALSE, <<>>)
LookupFailures ==
    {LookupAnswer("http", 404, TRUE, FALSE, <<>>), LookupAnswer("http", 401, TRUE, FALSE, <<>>),
     LookupAnswer("http", 503, FALSE, FALSE, <<>>), LookupAnswer("http", 200, FALSE, FALSE, <<>>),
     LookupAnswer("timeout", 0, FALSE, FALSE, <<>>)}
UserRecordAnswers ==
    {LookupAnswer("http", 200, TRUE, TRUE, l) : l \in ListsUpTo(Identities, MaxRecords)}
    \cup {LookupAnswer("http", 200, TRUE, FALSE, <<>>)} \cup LookupFailures
UserSearchAnswers ==
    {LookupAnswer("http", 200, TRUE, TRUE, l) : l \in ListsUpTo(UserRecords, MaxRecords)}
    \cup LookupFailures

\* the result of a lookup
LookupResult(kind, err, success, error, value, refresh_token) ==
    [kind |-> kind, err |-> err, success |-> success, error |-> error,
     value |-> value, refresh_token |-> refresh_token]
NoLookupResult == LookupResult("none", "", FALSE, NoneStr, NoneStr, NoneStr)
LookupRaised(err) == LookupResult("raise", err, FALSE, NoneStr, NoneStr, NoneStr)
Denied(error) == LookupResult("return", "", FALSE, error, NoneStr, NoneStr)
Granted(access_token, refresh_token) ==
    LookupResult("return", "", TRUE, NoneStr, access_token, refresh_token)
UserId(id) == LookupResult("return", "", FALSE, NoneStr, id, NoneStr)

\* Python truthiness of an optional str
Truthy(str) == str # NoneStr /\ str # ""

\* index of the first identity of the list with the provider, 0 if none
FirstMatch(list, provider) ==
    LET hits == {i \in DOMAIN list : list[i].provider = provider}
    IN  IF hits = {} THEN 0 ELSE CHOOSE i \in hits : \A j \in hits : i <= j

\* lines 124-153: the outcome for the identities of the user record
SalesforceOutcome_AnyToken(identities) ==
    LET hits == {i \in DOMAIN identities : Truthy(identities[i].access_token)}
    IN  IF hits = {} THEN Denied("salesforce_not_connected")
        ELSE LET k == CHOOSE i \in hits : \A j \in hits : i <= j
             IN  Granted(identities[k].access_token, identities[k].refresh_token)

SalesforceOutcome(identities) ==
    LET k == FirstMatch(identities, salesforce_connection_name)
    IN  IF k = 0 THEN Denied("salesforce_not_connected")
        ELSE IF ~Truthy(identities[k].access_token) THEN Denied("no_token")
        ELSE Granted(identities[k].access_token, identities[k].refresh_token)

\* get_salesforce_token (lines 93-153)
get_salesforce_token(vault_token, management, a) ==
    IF ~Truthy(vault_token) /\ management = "raise" THEN LookupRaised("VaultAuthFailed")
    ELSE IF a.kind = "timeout" THEN LookupRaised("TransportError")
    ELSE IF a.status # 200 THEN Denied("user_not_found")
    ELSE IF ~a.json THEN LookupRaised("DecodeError")
    ELSE SalesforceOutcome(IF a.has_list THEN a.list ELSE <<>>)

\* lines 206-210: the user id for the records of the search
FirstUserId_RaiseOnEmpty(users) ==
    IF Len(users) > 0 THEN UserId(users[1].user_id) ELSE LookupRaised("IndexError")

FirstUserId(users) ==
    IF Len(users) > 0 THEN UserId(users[1].user_id) ELSE UserId(NoneStr)

\* get_user_id_from_okta_sub (lines 183-210)
get_user_id_from_okta_sub(management, a) ==
    IF management = "raise" THEN LookupRaised("VaultAuthFailed")
    ELSE IF a.kind = "timeout" THEN LookupRaised("TransportError")
    ELSE IF a.status # 200 THEN UserId(NoneStr)
    ELSE IF ~a.json THEN LookupRaised("DecodeError")
    ELSE FirstUserId(a.list)

LookupInit ==
    /\ lk_management \in {"return", "raise"}
    /\ \/ /\ lk_op = "get_salesforce_token"
          /\ lk_vault_token \in {NoneStr, "", "vault-token"}
          /\ lk_answer \in UserRecordAnswers
       \/ /\ lk_op = "get_user_id_from_okta_sub"
          /\ lk_vault_token = NoneStr
          /\ lk_answer \in UserSearchAnswers
    /\ lk_result = NoLookupResult

LookupAtRest ==
    /\ lk_op = ""
    /\ lk_vault_token = NoneStr
    /\ lk_management = "return"
    /\ lk_answer = NoLookupAnswer
    /\ lk_result = NoLookupResult

GetSalesforceToken ==
    /\ lk_op = "get_salesforce_token"
    /\ lk_result = NoLookupResult
    /\ lk_result' = get_salesforce_token(lk_vault_token, lk_management, lk_answer)
    /\ UNCHANGED <<lk_op, lk_vault_token, lk_management, lk_answer>>
    /\ UNCHANGED exceptLookup

GetUserIdFromOktaSub ==
    /\ lk_op = "get_user_id_from_okta_sub"
    /\ lk_result = NoLookupResult
    /\ lk_result' = get_user_id_from_okta_sub(lk_management, lk_answer)
    /\ UNCHANGED <<lk_op, lk_vault_token, lk_management, lk_answer>>
    /\ UNCHANGED exceptLookup

LookupNext == GetSalesforceToken \/ GetUserIdFromOktaSub

(***************************************************************************)
(* Concurrent request flows of different users (routers/user.py,           *)
(* routers/chat.py) over the singletons okta_auth and token_vault          *)
(***************************************************************************)
NumFlows == 2            \* requests in flight at once, one user each

Flows == 1..NumFlows
\* per-user values: the validated identity, the vault user, the credential
\* and the scope grant of user u
PerUser(t, u) == [t |-> t, of |-> u]

\* the locals of one request: nothing of them is stored on a singleton
Flow(fpc, id_token, user, vault_user, credential, id_jag, scopes) ==
    [pc |-> fpc, id_token |-> id_token, user |-> user, vault_user |-> vault_user,
     credential |-> credential, id_jag |-> id_jag, scopes |-> scopes]
FlowOutcomes == {"ok", "denied", "raise"}

\* the subject token handed to exchange_id_jag_for_token by flow f
Step2Subject_AnyFlow(f, flows) ==
    LET have == {g \in DOMAIN flows : flows[g].id_jag # NoneTok}
    IN  IF have = {} THEN NoneTok ELSE flows[CHOOSE g \in have : TRUE].id_jag

Step2Subject(f, flows) == flows[f].id_jag

FlowsInit ==
    fl = [f \in Flows |-> Flow("start", IdToken(f), NoneTok, NoneTok, NoneTok, NoneTok, NoneTok)]

FlowsAtRest == fl = <<>>

\* get_current_user: get_jwks fills the shared key cache when it is not
\* fresh, validate_id_token gives the identity the token carries
FlowValidate(f, o) ==
    /\ fl[f].pc = "start"
    /\ IF JwksFresh(jwks_cache, jwks_cache_time, now) \/ o = "raise"
       THEN UNCHANGED <<jwks_cache, jwks_cache_time>>
       ELSE /\ jwks_cache' = <<Jwks({"k1"})>>
            /\ jwks_cache_time' = now
    /\ fl' = [fl EXCEPT ![f] =
                 IF o = "ok" THEN [@ EXCEPT !.pc = "validated", !.user = PerUser("user", fl[f].id_token.of)]
                 ELSE [@ EXCEPT !.pc = "rejected"]]
    /\ UNCHANGED <<management_token, token_expiry>>
    /\ UNCHANGED exceptFlows

\* get_user_id_from_okta_sub(user.sub): get_management_token fills the shared
\* credential cache when it is not fresh, the search answers for that subject
FlowVaultUser(f, o) ==
    /\ fl[f].pc = "validated"
    /\ IF CacheFresh(management_token, token_expiry, now) \/ o = "raise"
       THEN UNCHANGED <<management_token, token_expiry>>
       ELSE /\ management_token' = "mgmt-a"
            /\ token_expiry' = now + DefaultExpiresIn - SafetyMargin
    /\ fl' = [fl EXCEPT ![f] =
                 [@ EXCEPT !.pc = "searched",
                           !.vault_user = IF o = "ok" THEN PerUser("vault_user", fl[f].user.of)
                                          ELSE NoneTok]]
    /\ UNCHANGED <<jwks_cache, jwks_cache_time>>
    /\ UNCHANGED exceptFlows

\* get_salesforce_token(auth0_user_id), called only with a vault user: the
\* lookup answers with the identities of that vault user
FlowCredential(f, o) ==
    /\ fl[f].pc = "searched"
    /\ fl' = [fl EXCEPT ![f] =
                 [@ EXCEPT !.pc = "looked_up",
                           !.credential =
                               IF fl[f].vault_user # NoneTok /\ o = "ok"
                               THEN PerUser("salesforce_token", fl[f].vault_user.of) ELSE NoneTok]]
    /\ UNCHANGED <<jwks_cache, jwks_cache_time, management_token, token_expiry>>
    /\ UNCHANGED exceptFlows

\* exchange_for_id_jag(id_token): the org server answers for the subject of
\* the token it was sent
FlowStep1(f, o) ==
    /\ fl[f].pc = "looked_up"
    /\ fl' = [fl EXCEPT ![f] =
                 IF o = "ok" THEN [@ EXCEPT !.pc = "asserted", !.id_jag = IdJag(fl[f].id_token.of)]
                 ELSE [@ EXCEPT !.pc = "done"]]
    /\ UNCHANGED <<jwks_cache, jwks_cache_time, management_token, token_expiry>>
    /\ UNCHANGED exceptFlows

\* exchange_id_jag_for_token(id_jag): the resource server grants the scopes
\* of the subject of the assertion it was sent
FlowStep2(f, o) ==
    /\ fl[f].pc = "asserted"
    /\ fl' = [fl EXCEPT ![f] =
                 [@ EXCEPT !.pc = "done",
                           !.scopes = IF o = "ok" THEN PerUser("scopes", Step2Subject(f, fl).of)
                                      ELSE NoneTok]]
    /\ UNCHANGED <<jwks_cache, jwks_cache_time, management_token, token_expiry>>
    /\ UNCHANGED exceptFlows

FlowsNext ==
    \/ \E f \in Flows : \E o \in FlowOutcomes : FlowValidate(f, o)
    \/ \E f \in Flows : \E o \in FlowOutcomes : FlowVaultUser(f, o)
    \/ \E f \in Flows : \E o \in FlowOutcomes : FlowCredential(f, o)
    \/ \E f \in Flows : \E o \in FlowOutcomes : FlowStep1(f, o)
    \/ \E f \in Flows : \E o \in FlowOutcomes : FlowStep2(f, o)

(***************************************************************************)
(* AgentOrchestrator.process_message and _execute_tool                     *)
(* (agents/orchestrator.py)                                                *)
(***************************************************************************)
MaxToolCalls == 2        \* tool calls in one reply of the model

ToolNames == {"check_inventory", "update_inventory", "get_leads"}
\* the tool calls of a reply: the i-th has the id i
ToolCallsOfReply(names) == [i \in DOMAIN names |-> [id |-> i, name |-> names[i]]]
Replies == {ToolCallsOfReply(names) : names \in ListsUpTo(ToolNames, MaxToolCalls)}

\* a tool result: of is the call that produced it, detail the text of the
\* exception when one was raised ("" when none)
ToolResult(call, detail) == [of |-> call, detail |-> detail]
\* str(e) of an exception raised inside a tool
ExceptionText == "KeyError: 'reason'"
\* the text of the reply: detail is the exception text it quotes
Content(text, detail) == [text |-> text, detail |-> detail]
NoContent == Content("", "")

\* _execute_tool: the tool's result, or {"error": str(e)} when it raised
execute_tool(call, o) ==
    IF o = "raise" THEN ToolResult(call.id, ExceptionText) ELSE ToolResult(call.id, "")

\* the except clause of process_message
ProcessingFailed(e) ==
    Content("I encountered an issue processing your request. Please try again.", e)

\* lines 557-563: one tool message per executed call; tool_call is the loop
\* variable of the loop at 532, bound to the last call of the reply
ToolMessages(reply, tool_calls) ==
    [j \in DOMAIN tool_calls |->
        [role |-> "tool", tool_call_id |-> reply[Len(reply)].id,
         content |-> tool_calls[j].result]]

Agent(apc, reply, i, tool_calls, messages, content) ==
    [pc |-> apc, reply |-> reply, i |-> i, tool_calls |-> tool_calls,
     messages |-> messages, content |-> content]

AgentInit == ag \in {Agent("start", r, 0, <<>>, <<>>, NoContent) : r \in Replies}

AgentAtRest == ag = Agent("rest", <<>>, 0, <<>>, <<>>, NoContent)

\* lines 525-531 and 567-571: the first call of the model
CallFoundry(o) ==
    /\ ag.pc = "start"
    /\ ag' = IF o = "raise"
             THEN [ag EXCEPT !.pc = "done", !.content = ProcessingFailed("ConnectError")]
             ELSE IF Len(ag.reply) = 0
             THEN [ag EXCEPT !.pc = "done", !.content = Content("answer", "")]
             ELSE [ag EXCEPT !.pc = "tools", !.i = 1]
    /\ UNCHANGED exceptAgent

\* lines 532-554: the next tool call of the reply is decoded and executed
ExecuteTool(o) ==
    /\ ag.pc = "tools"
    /\ ag' = IF o = "bad_arguments"
             THEN [ag EXCEPT !.pc = "done", !.content = ProcessingFailed("JSONDecodeError")]
             ELSE [ag EXCEPT
                      !.tool_calls = Append(@, [tool_name |-> ag.reply[ag.i].name,
                                                result |-> execute_tool(ag.reply[ag.i], o)]),
                      !.i = @ + 1,
                      !.pc = IF ag.i = Len(ag.reply) THEN "followup" ELSE "tools"]
    /\ UNCHANGED exceptAgent

\* lines 556-566: the follow-up request and its answer
FollowUp(o) ==
    /\ ag.pc = "followup"
    /\ ag' = [ag EXCEPT
                 !.messages = ToolMessages(ag.reply, ag.tool_calls),
                 !.pc = "done",
                 !.content = IF o = "raise" THEN ProcessingFailed("ConnectError")
                             ELSE Content("final answer", "")]
    /\ UNCHANGED exceptAgent

AgentNext ==
    \/ \E o \in {"reply", "raise"} : CallFoundry(o)
    \/ \E o \in {"ok", "raise", "bad_arguments"} : ExecuteTool(o)
    \/ \E o \in {"ok", "raise"} : FollowUp(o)

(***************************************************************************)
(* The vault path of a chat request (routers/chat.py, chat)                *)
(***************************************************************************)
NumChats == 2            \* chat requests followed side by side

Chats == 1..NumChats
\* the upstream answers explored for the two lookups of a chat request
ChatSearchAnswers ==
    {a \in UserSearchAnswers :
        a.list \in {<<>>, <<[user_id |-> "auth0|1"]>>, <<[user_id |-> NoneStr]>>}}
ChatLookupAnswers == {a \in UserRecordAnswers : Len(a.list) <= 1}
Intents == {"salesforce", "inventory", "orchestrator"}

NoAccessText == "I don't have access to Salesforce. Please connect your Salesforce account first."

\* what the endpoint answers: tools_run and credential tell whether
\* Salesforce tools were executed and with which access token
ChatResponse(status, agent, message, tools_run, credential, scopes) ==
    [status |-> status, agent |-> agent, message |-> message, tools_run |-> tools_run,
     credential |-> credential, scopes |-> scopes]
NoChatResponse == ChatResponse(0, "", "", FALSE, NoneStr, <<>>)

\* lines 419-424: the token kept from the two lookups; an exception of
\* either is caught at 425 and leaves None
SalesforceTokenOf(search, sf_result) ==
    IF search.kind = "return" /\ Truthy(search.value)
       /\ sf_result.kind = "return" /\ sf_result.success
    THEN sf_result.value ELSE NoneStr

\* execute_salesforce_tools (lines 161-202)
execute_salesforce_tools_NoCheck(token) ==
    ChatResponse(200, "salesforce", "salesforce results", TRUE, token,
                 IF Truthy(token) THEN <<"sales:read", "customer:read">> ELSE <<>>)

execute_salesforce_tools(token) ==
    IF ~Truthy(token)
    THEN ChatResponse(200, "salesforce", NoAccessText, FALSE, NoneStr, <<>>)
    ELSE ChatResponse(200, "salesforce", "salesforce results", TRUE, token,
                      <<"sales:read", "customer:read">>)

\* lines 436-494: the response for the intent of the message
ChatResponseFor(intent, token) ==
    IF intent = "salesforce" THEN execute_salesforce_tools(token)
    ELSE IF intent = "inventory"
    THEN ChatResponse(200, "inventory", "inventory results", FALSE, NoneStr, ChatScopes)
    ELSE ChatResponse(200, "orchestrator", "I can help you with:", FALSE, NoneStr, <<>>)

ChatRequest(cpc, search, sf_result, response) ==
    [pc |-> cpc, search |-> search, sf_result |-> sf_result, response |-> response]

ChatInit == ch = [c \in Chats |-> ChatRequest("start", NoLookupResult, NoLookupResult, NoChatResponse)]

ChatAtRest == ch = <<>>

\* line 420: get_user_id_from_okta_sub(user.sub)
ChatSearch(c, management, a) ==
    /\ ch[c].pc = "start"
    /\ LET r == get_user_id_from_okta_sub(management, a)
       IN  ch' = [ch EXCEPT ![c] =
                     [@ EXCEPT !.search = r,
                               !.pc = IF r.kind = "return" /\ Truthy(r.value)
                                      THEN "lookup" ELSE "answer"]]
    /\ UNCHANGED exceptChat

\* line 422: get_salesforce_token(auth0_user_id), only with a user id
ChatLookup(c, management, a) ==
    /\ ch[c].pc = "lookup"
    /\ ch' = [ch EXCEPT ![c] =
                 [@ EXCEPT !.sf_result = get_salesforce_token(NoneStr, management, a),
                           !.pc = "answer"]]
    /\ UNCHANGED exceptChat

\* lines 428-494: the orchestrator is built with the token and answers
ChatAnswer(c, intent) ==
    /\ ch[c].pc = "answer"
    /\ ch' = [ch EXCEPT ![c] =
                 [@ EXCEPT !.response =
                               ChatResponseFor(intent, SalesforceTokenOf(ch[c].search,
                                                                          ch[c].sf_result)),
                           !.pc = "done"]]
    /\ UNCHANGED exceptChat

ChatNext ==
    \/ \E c \in Chats : \E mg \in {"return", "raise"} : \E a \in ChatSearchAnswers :
           ChatSearch(c, mg, a)
    \/ \E c \in Chats : \E mg \in {"return", "raise"} : \E a \in ChatLookupAnswers :
           ChatLookup(c, mg, a)
    \/ \E c \in Chats : \E intent \in Intents : ChatAnswer(c, intent)

(***************************************************************************)
(* Inventory write paths (routers/inventory.py, routers/chat.py,           *)
(* agents/orchestrator.py, tools/inventory_tools.py)                       *)
(***************************************************************************)
NumClients == 2          \* authenticated callers of the inventory endpoints
MaxOps == 3              \* endpoint calls in a run
MaxQuantity == 60        \* largest stock level explored

Clients == 1..NumClients
\* scope sets the resource authorization server grants a caller
GrantedChoices == {{}, {"inventory:read"},
                   {"inventory:read", "inventory:write", "inventory:alert"}}
Skus == {"TRP-001", "SHB-002"}
UnknownSku == "XXX-000"
QuantityChanges == {-50, -10, 10}


Product(q, rp, st) == [quantity |-> q, reorder_point |-> rp, status |-> st]
DEMO_PRODUCTS ==
    [sku \in Skus |->
        IF sku = "TRP-001" THEN Product(45, 15, "in_stock")
        ELSE Product(12, 20, "low_stock")]

Max(a, b) == IF a >= b THEN a ELSE b

\* the status update_stock_sync gives a product at a new quantity
StockStatus(q, rp) ==
    IF q = 0 THEN "out_of_stock"
    ELSE IF q < rp THEN "low_stock"
    ELSE "in_stock"

\* InventoryTools.update_stock_sync: the products after the call
update_stock_sync(ps, sku, change) ==
    IF sku \notin DOMAIN ps THEN ps
    ELSE LET q == Max(0, ps[sku].quantity + change)
         IN  [ps EXCEPT ![sku] = Product(q, @.reorder_point, StockStatus(q, @.reorder_point))]

\* InventoryTools._has_scope
has_scope_Always(user_scopes, required) == TRUE

has_scope(user_scopes, required) == required \in Range(user_scopes)

Call(c, endpoint, sku, status) ==
    [caller |-> c, endpoint |-> endpoint, sku |-> sku, status |-> status]
Effect(c, op, sku) == [caller |-> c, op |-> op, sku |-> sku]

InventoryInit ==
    /\ granted \in [Clients -> GrantedChoices]
    /\ products = DEMO_PRODUCTS
    /\ effects = {}
    /\ last = Call(0, "none", "", 0)
    /\ ops = 0

\* POST /products/{sku}/stock: the coroutine of the async update_stock is
\* never awaited, the membership test on it raises, the handler answers 500
RouterUpdateStock(c, sku, change) ==
    /\ ops < MaxOps
    /\ ops' = ops + 1
    /\ last' = Call(c, "router.update_stock", sku, 500)
    /\ UNCHANGED <<granted, products, effects>>
    /\ UNCHANGED exceptInventory

\* POST /bulk/receive: same un-awaited call per item, each item fails
RouterBulkReceive(c, sku, change) ==
    /\ ops < MaxOps
    /\ ops' = ops + 1
    /\ last' = Call(c, "router.bulk_receive", sku, 200)
    /\ UNCHANGED <<granted, products, effects>>
    /\ UNCHANGED exceptInventory

\* POST /products/{sku}/reorder: create_reorder answers a pending reorder
\* for a known product, whoever asks
RouterCreateReorder(c, sku) ==
    /\ ops < MaxOps
    /\ ops' = ops + 1
    /\ IF sku \in DOMAIN products
       THEN /\ last' = Call(c, "router.create_reorder", sku, 200)
            /\ effects' = effects \cup {Effect(c, "reorder", sku)}
       ELSE /\ last' = Call(c, "router.create_reorder", sku, 400)
            /\ UNCHANGED effects
    /\ UNCHANGED <<granted, products>>
    /\ UNCHANGED exceptInventory

\* POST /api/chat with an inventory intent: every tool of
\* execute_inventory_tools reads; "update_stock" runs get_stock_summary
ChatInventory(c) ==
    /\ ops < MaxOps
    /\ ops' = ops + 1
    /\ last' = Call(c, "chat.inventory", "",
                    IF has_scope(ChatScopes, "inventory:read") THEN 200 ELSE 403)
    /\ UNCHANGED <<granted, products, effects>>
    /\ UNCHANGED exceptInventory

\* POST /api/chat/ai, the model asks for update_inventory: _execute_tool
\* calls update_stock_sync on the shared inventory
AiChatUpdateInventory(c, sku, change) ==
    /\ ops < MaxOps
    /\ sku \in DOMAIN products => products[sku].quantity + change <= MaxQuantity
    /\ ops' = ops + 1
    /\ products' = update_stock_sync(products, sku, change)
    /\ effects' = IF products' # products
                  THEN effects \cup {Effect(c, "update_stock", sku)}
                  ELSE effects
    /\ last' = Call(c, "ai.update_inventory", sku, 200)
    /\ UNCHANGED granted
    /\ UNCHANGED exceptInventory

InventoryNext ==
    \/ \E c \in Clients : \E sku \in Skus \cup {UnknownSku} : \E d \in QuantityChanges :
           RouterUpdateStock(c, sku, d)
    \/ \E c \in Clients : \E sku \in Skus \cup {UnknownSku} : \E d \in QuantityChanges :
           RouterBulkReceive(c, sku, d)
    \/ \E c \in Clients : \E sku \in Skus \cup {UnknownSku} : RouterCreateReorder(c, sku)
    \/ \E c \in Clients : ChatInventory(c)
    \/ \E c \in Clients : \E sku \in Skus \cup {UnknownSku} : \E d \in QuantityChanges :
           AiChatUpdateInventory(c, sku, d)

(***************************************************************************)
(* An InventoryTools instance and its scope-checked operations             *)
(* (tools/inventory_tools.py)                                              *)
(***************************************************************************)
MaxToolOps == 3          \* operations on the instance in a run
MaxUpdates == 2          \* items of one bulk_stock_update

\* __init__: the scope list of the instance; None and [] give the default
DefaultScopes == <<"inventory:read", "inventory:write", "inventory:alert">>
ScopeArguments == {<<>>, <<"inventory:read">>, <<"inventory:read", "inventory:alert">>,
                   DefaultScopes}
InstanceScopes(user_scopes) == IF user_scopes = <<>> THEN DefaultScopes ELSE user_scopes

ReorderPoints == {5, 30}
Update(sku, change) == [sku |-> sku, quantity_change |-> change]
BulkUpdates ==
    ListsUpTo({Update("TRP-001", -50), Update("SHB-002", 10), Update(UnknownSku, 10)},
              MaxUpdates)
DEMO_ALERTS == <<"alert-001", "alert-002">>

\* the _execute of update_stock: the products after it
update_stock(ps, sku, change) ==
    IF sku \notin DOMAIN ps THEN ps
    ELSE LET q == Max(0, ps[sku].quantity + change)
         IN  [ps EXCEPT ![sku] = Product(q, @.reorder_point, StockStatus(q, @.reorder_point))]

RECURSIVE bulk_stock_update(_, _)
\* the _execute of bulk_stock_update: the updates applied in order
bulk_stock_update(ps, updates) ==
    IF updates = <<>> THEN ps
    ELSE bulk_stock_update(update_stock(ps, Head(updates).sku, Head(updates).quantity_change),
                           Tail(updates))

\* the _execute of set_reorder_point: the status only ever moves to low_stock
set_reorder_point(ps, sku, rp) ==
    IF sku \notin DOMAIN ps THEN ps
    ELSE [ps EXCEPT ![sku] =
             Product(@.quantity, rp,
                     IF @.quantity > 0 /\ @.quantity < rp THEN "low_stock" ELSE @.status)]

\* the ToolCall an operation returns; ran tells whether its function ran
ToolCall(name, required_scope, status, error, ran) ==
    [name |-> name, required_scope |-> required_scope, status |-> status,
     error |-> error, ran |-> ran]
NoToolCall == ToolCall("", NoneStr, "pending", NoneStr, FALSE)
AccessDenied(required_scope) == <<"Access denied: requires scope '", required_scope, "'">>

\* _execute_tool: the instance after an operation whose function leaves the
\* products ps and the alerts al
execute_inventory_tool(t, name, required_scope, ps, al) ==
    IF required_scope # NoneStr /\ ~has_scope(t.user_scopes, required_scope)
    THEN [t EXCEPT !.last = ToolCall(name, required_scope, "error",
                                     AccessDenied(required_scope), FALSE),
                   !.n = @ + 1]
    ELSE [t EXCEPT !.last = ToolCall(name, required_scope, "completed", NoneStr, TRUE),
                   !.products = ps, !.alerts = al, !.n = @ + 1]

Tools(user_scopes, ps, al, lastcall, n) ==
    [user_scopes |-> user_scopes, products |-> ps, alerts |-> al, last |-> lastcall, n |-> n]

ToolsInit ==
    tl \in {Tools(InstanceScopes(s), DEMO_PRODUCTS, DEMO_ALERTS, NoToolCall, 0) :
               s \in ScopeArguments}

ToolsAtRest == tl = Tools(<<>>, <<>>, <<>>, NoToolCall, 0)

CheckStock ==
    /\ tl.n < MaxToolOps
    /\ tl' = execute_inventory_tool(tl, "check_stock", "inventory:read", tl.products, tl.alerts)
    /\ UNCHANGED exceptTools

UpdateStock(sku, change) ==
    /\ tl.n < MaxToolOps
    /\ tl' = execute_inventory_tool(tl, "update_stock", "inventory:write",
                                    update_stock(tl.products, sku, change), tl.alerts)
    /\ UNCHANGED exceptTools

BulkStockUpdate(updates) ==
    /\ tl.n < MaxToolOps
    /\ tl' = execute_inventory_tool(tl, "bulk_stock_update", "inventory:write",
                                    bulk_stock_update(tl.products, updates), tl.alerts)
    /\ UNCHANGED exceptTools

SetReorderPoint(sku, rp) ==
    /\ tl.n < MaxToolOps
    /\ tl' = execute_inventory_tool(tl, "set_reorder_point", "inventory:write",
                                    set_reorder_point(tl.products, sku, rp), tl.alerts)
    /\ UNCHANGED exceptTools

\* update_stock_sync is called directly, with no scope check
UpdateStockSync(sku, change) ==
    /\ tl.n < MaxToolOps
    /\ tl' = execute_inventory_tool(tl, "update_stock_sync", NoneStr,
                                    update_stock_sync(tl.products, sku, change), tl.alerts)
    /\ UNCHANGED exceptTools

CreateAlert(sku) ==
    /\ tl.n < MaxToolOps
    /\ tl' = execute_inventory_tool(tl, "create_alert", "inventory:alert", tl.products,
                                    IF sku \in DOMAIN tl.products
                                    THEN Append(tl.alerts, <<"alert", tl.n>>) ELSE tl.alerts)
    /\ UNCHANGED exceptTools

DismissAlert(alert_id) ==
    /\ tl.n < MaxToolOps
    /\ tl' = execute_inventory_tool(tl, "dismiss_alert", "inventory:alert", tl.products,
                                    SelectSeq(tl.alerts, LAMBDA a : a # alert_id))
    /\ UNCHANGED exceptTools

ToolsNext ==
    \/ CheckStock
    \/ \E sku \in Skus \cup {UnknownSku} : \E d \in QuantityChanges : UpdateStock(sku, d)
    \/ \E us \in BulkUpdates : BulkStockUpdate(us)
    \/ \E sku \in Skus \cup {UnknownSku} : \E rp \in ReorderPoints : SetReorderPoint(sku, rp)
    \/ \E sku \in Skus \cup {UnknownSku} : \E d \in QuantityChanges : UpdateStockSync(sku, d)
    \/ \E sku \in Skus \cup {UnknownSku} : CreateAlert(sku)
    \/ \E id \in {"alert-001", "alert-009"} : DismissAlert(id)

(***************************************************************************)
(* Concurrent get_jwks calls with fetch latencies (auth/okta_auth.py)      *)
(***************************************************************************)
MaxJwksCalls == 3        \* get_jwks calls in a run

\* the clock advances between steps by one of these amounts
RaceTimeSteps == {1800, 3600}
\* the answers of the keys endpoint that end a call differently
RaceAnswers == {a \in JwksAnswers : FetchError(a) # "" \/ a.jwks.keys # {}}
\* the key set of answer a, with the time t at which the keys endpoint
\* served it and how the fetch went
FetchedAt(a, t) == [keys |-> a.jwks.keys, fetched_at |-> t, fetch_error |-> FetchError(a)]
\* a get_jwks call in flight
JwksCall(gpc, current_time, had_cache, raced) ==
    [pc |-> gpc, current_time |-> current_time, had_cache |-> had_cache, raced |-> raced]
NoJwksCall == JwksCall("idle", 0, FALSE, FALSE)
\* how a get_jwks call ended: returned is <<>> or the key set handed out
JwksReturned(call, issued, returned) ==
    [current_time |-> call.current_time, had_cache |-> call.had_cache, raced |-> call.raced,
     issued |-> issued, returned |-> returned]
NoJwksReturned == JwksReturned(NoJwksCall, FALSE, <<>>)

RaceInit ==
    gj = [calls |-> [v \in Validators |-> NoJwksCall], last |-> NoJwksReturned, n |-> 0]

RaceAtRest == gj = <<>>

\* time passes; before the first call it changes nothing
RaceTick(d) ==
    /\ ticks < MaxTicks
    /\ gj.n > 0
    /\ now' = now + d
    /\ ticks' = ticks + 1
    /\ UNCHANGED <<gj, jwks_cache, jwks_cache_time>>
    /\ UNCHANGED exceptRace

\* lines 36-42: the time is read; a fresh cache is returned at once,
\* otherwise the request goes out
GetJwksCall(v) ==
    /\ gj.calls[v].pc = "idle"
    /\ gj.n < MaxJwksCalls
    /\ LET call == JwksCall("await", now, jwks_cache # <<>>,
                            \E w \in Validators : w # v /\ gj.calls[w].pc = "await")
       IN  IF JwksFresh(jwks_cache, jwks_cache_time, now)
           THEN gj' = [gj EXCEPT !.n = @ + 1,
                                 !.last = JwksReturned(call, FALSE, jwks_cache)]
           ELSE gj' = [gj EXCEPT !.n = @ + 1, !.calls[v] = call]
    /\ UNCHANGED <<now, ticks, jwks_cache, jwks_cache_time>>
    /\ UNCHANGED exceptRace

\* lines 42-45: the answer arrives, after any delay; a failure raises, a
\* success is stored under the time read at the start of the call
GetJwksResponse(v, a) ==
    /\ gj.calls[v].pc = "await"
    /\ IF FetchError(a) # ""
       THEN /\ gj' = [gj EXCEPT !.calls[v] = NoJwksCall,
                                !.last = JwksReturned(gj.calls[v], TRUE, <<>>)]
            /\ UNCHANGED <<jwks_cache, jwks_cache_time>>
       ELSE /\ jwks_cache' = <<FetchedAt(a, now)>>
            /\ jwks_cache_time' = gj.calls[v].current_time
            /\ gj' = [gj EXCEPT !.calls[v] = [@ EXCEPT !.pc = "fetched"]]
    /\ UNCHANGED <<now, ticks>>
    /\ UNCHANGED exceptRace

\* line 47, after the client was closed: what the cache holds now
GetJwksReturn(v) ==
    /\ gj.calls[v].pc = "fetched"
    /\ gj' = [gj EXCEPT !.calls[v] = NoJwksCall,
                        !.last = JwksReturned(gj.calls[v], TRUE, jwks_cache)]
    /\ UNCHANGED <<now, ticks, jwks_cache, jwks_cache_time>>
    /\ UNCHANGED exceptRace

RaceNext ==
    \/ \E d \in RaceTimeSteps : RaceTick(d)
    \/ \E v \in Validators : GetJwksCall(v)
    \/ \E v \in Validators : \E a \in RaceAnswers : GetJwksResponse(v, a)
    \/ \E v \in Validators : GetJwksReturn(v)

(***************************************************************************)
(* Specifications: one per component, the others at rest                   *)
(***************************************************************************)

\* a deployment with both settings present, no request under way
AccessAtRest ==
    /\ inventory_auth_server_id = TRUE
    /\ wlp_private_key = TRUE
    /\ groups = [r \in Reqs |-> {}]
    /\ pc = [r \in Reqs |-> "start"]
    /\ sf = [r \in Reqs |-> "none"]
    /\ up1 = [r \in Reqs |-> NoAnswer]
    /\ up2 = [r \in Reqs |-> NoAnswer]
    /\ s1 = [r \in Reqs |-> NotCalled]
    /\ s2 = [r \in Reqs |-> NotCalled]
    /\ resp = [r \in Reqs |-> NoResponse]
    /\ sent = {}
    /\ jti_next = 0

InventoryAtRest ==
    /\ granted = [c \in Clients |-> {}]
    /\ products = DEMO_PRODUCTS
    /\ effects = {}
    /\ last = Call(0, "none", "", 0)
    /\ ops = 0

AccessNext ==
    \/ \E r \in Reqs : \E o \in SfOutcomes : SalesforceCheck(r, o)
    \/ \E r \in Reqs : InventoryBegin(r)
    \/ \E r \in Reqs : \E a \in OrgAnswers(r) : OrgAnswer(r, a)
    \/ \E r \in Reqs : \E a \in ResourceAnswers(r) : ResourceAnswer(r, a)

InitAccess ==
    /\ AccessInit /\ ClockInit /\ VaultInit /\ JwksInit /\ InventoryAtRest /\ ValidateAtRest /\ ExchangeInit
    /\ LookupAtRest
    /\ FlowsAtRest
    /\ AgentAtRest
    /\ ChatAtRest
    /\ ToolsAtRest
    /\ RaceAtRest

SpecAccess == InitAccess /\ [][AccessNext]_vars

InitVault ==
    /\ AccessAtRest /\ ClockInit /\ VaultInit /\ JwksInit /\ InventoryAtRest /\ ValidateAtRest /\ ExchangeInit
    /\ LookupAtRest
    /\ FlowsAtRest
    /\ AgentAtRest
    /\ ChatAtRest
    /\ ToolsAtRest
    /\ RaceAtRest

SpecVault == InitVault /\ [][VaultNext]_vars

InitJwks ==
    /\ AccessAtRest /\ ClockInit /\ VaultInit /\ JwksInit /\ InventoryAtRest /\ ValidateAtRest /\ ExchangeInit
    /\ LookupAtRest
    /\ FlowsAtRest
    /\ AgentAtRest
    /\ ChatAtRest
    /\ ToolsAtRest
    /\ RaceAtRest

SpecJwks == InitJwks /\ [][JwksNext]_vars

InitInventory ==
    /\ AccessAtRest /\ ClockInit /\ VaultInit /\ JwksInit /\ InventoryInit /\ ValidateAtRest /\ ExchangeInit
    /\ LookupAtRest
    /\ FlowsAtRest
    /\ AgentAtRest
    /\ ChatAtRest
    /\ ToolsAtRest
    /\ RaceAtRest

SpecInventory == InitInventory /\ [][InventoryNext]_vars

InitValidate ==
    /\ AccessAtRest /\ ClockInit /\ VaultInit /\ JwksInit /\ InventoryAtRest
    /\ ValidateInit /\ ExchangeInit /\ LookupAtRest
    /\ FlowsAtRest
    /\ AgentAtRest
    /\ ChatAtRest
    /\ ToolsAtRest
    /\ RaceAtRest

\* the settings of the deployment, no request to the endpoints under way
SettingsInit ==
    /\ inventory_auth_server_id = TRUE
    /\ wlp_private_key \in BOOLEAN
    /\ groups = [r \in Reqs |-> {}]
    /\ pc = [r \in Reqs |-> "start"]
    /\ sf = [r \in Reqs |-> "none"]
    /\ up1 = [r \in Reqs |-> NoAnswer]
    /\ up2 = [r \in Reqs |-> NoAnswer]
    /\ s1 = [r \in Reqs |-> NotCalled]
    /\ s2 = [r \in Reqs |-> NotCalled]
    /\ resp = [r \in Reqs |-> NoResponse]
    /\ sent = {}
    /\ jti_next = 0

InitExchange ==
    /\ SettingsInit /\ ClockInit /\ VaultInit /\ JwksInit /\ InventoryAtRest
    /\ ValidateAtRest /\ ExchangeInit /\ LookupAtRest
    /\ FlowsAtRest
    /\ AgentAtRest
    /\ ChatAtRest
    /\ ToolsAtRest
    /\ RaceAtRest

SpecExchange == InitExchange /\ [][ExchangeNext]_vars

InitLookup ==
    /\ AccessAtRest /\ ClockInit /\ VaultInit /\ JwksInit /\ InventoryAtRest
    /\ ValidateAtRest /\ ExchangeInit /\ LookupInit
    /\ FlowsAtRest
    /\ AgentAtRest
    /\ ChatAtRest
    /\ ToolsAtRest
    /\ RaceAtRest

SpecLookup == InitLookup /\ [][LookupNext]_vars

SpecValidate == InitValidate /\ [][ValidateNext]_vars

InitFlows ==
    /\ AccessAtRest /\ ClockInit /\ VaultInit /\ JwksInit /\ InventoryAtRest
    /\ ValidateAtRest /\ ExchangeInit /\ LookupAtRest
    /\ FlowsInit
    /\ AgentAtRest
    /\ ChatAtRest
    /\ ToolsAtRest
    /\ RaceAtRest

SpecFlows == InitFlows /\ [][FlowsNext]_vars

InitAgent ==
    /\ AccessAtRest /\ ClockInit /\ VaultInit /\ JwksInit /\ InventoryAtRest
    /\ ValidateAtRest /\ ExchangeInit /\ LookupAtRest
    /\ FlowsAtRest
    /\ AgentInit
    /\ ChatAtRest
    /\ ToolsAtRest
    /\ RaceAtRest

SpecAgent == InitAgent /\ [][AgentNext]_vars

InitChat ==
    /\ AccessAtRest /\ ClockInit /\ VaultInit /\ JwksInit /\ InventoryAtRest
    /\ ValidateAtRest /\ ExchangeInit /\ LookupAtRest
    /\ FlowsAtRest
    /\ AgentAtRest
    /\ ChatInit
    /\ ToolsAtRest
    /\ RaceAtRest

SpecChat == InitChat /\ [][ChatNext]_vars

InitTools ==
    /\ AccessAtRest /\ ClockInit /\ VaultInit /\ JwksInit /\ InventoryAtRest
    /\ ValidateAtRest /\ ExchangeInit /\ LookupAtRest
    /\ FlowsAtRest
    /\ AgentAtRest
    /\ ChatAtRest
    /\ ToolsInit
    /\ RaceAtRest

SpecTools == InitTools /\ [][ToolsNext]_vars

InitRace ==
    /\ AccessAtRest /\ ClockInit /\ VaultInit /\ JwksInit /\ InventoryAtRest
    /\ ValidateAtRest /\ ExchangeInit /\ LookupAtRest
    /\ FlowsAtRest
    /\ AgentAtRest
    /\ ChatAtRest
    /\ ToolsAtRest
    /\ RaceInit

SpecRace == InitRace /\ [][RaceNext]_vars

(***************************************************************************)
(* Properties of the two-hop exchange (SpecAccess)                         *)
(***************************************************************************)
\* the scope names of a space-delimited scope string
ScopeNames(str) == {Str(str[i]) : i \in {j \in DOMAIN str : str[j] # SP}}
Step2Sent(r) == \E m \in sent : m.flow = r /\ m.step = 2

\* C1: a token request to the resource authorization server (step 2) is sent
\* only when step 1 of the same flow has returned an identity assertion
\* token; when step 1 failed or gave no token, step 2 is not attempted.
C1_Step2OnlyAfterAssertion ==
    \A m \in sent : m.step = 2 =>
        /\ s1[m.flow].kind = "return"
        /\ s1[m.flow].tok # NoneTok

\* C2: whenever the resource authorization server answers step 2 with a
\* status other than 200, exchange_id_jag_for_token does not raise and
\* returns success=false with the upstream error and error_description.
C2_Step2DenialIsReturned ==
    \A r \in Reqs : (up2[r].kind = "http" /\ up2[r].status # 200) =>
        /\ s2[r].kind = "return"
        /\ ~s2[r].success
        /\ s2[r].error = up2[r].error
        /\ s2[r].error_description = up2[r].error_description

C4_Step1FailureIsFatal ==
    \A r \in Reqs :
        (pc[r] = "done" /\ s1[r].err = "ExchangeFailed") => resp[r].kind = "error"

\* C4 amended: a user-access check whose step 1 failed with ExchangeFailed
\* sends no step-2 request and ends with a normal response that reports
\* inventory unauthorized with no scopes, the Salesforce part as found.
C4_Step1FailureIsCaught ==
    \A r \in Reqs :
        (pc[r] = "done" /\ s1[r].err = "ExchangeFailed") =>
            /\ ~Step2Sent(r)
            /\ resp[r].kind = "ok"
            /\ resp[r].inventory = InventoryAccess(FALSE, <<>>)
            /\ resp[r].salesforce.connected = (sf[r] = "connected")

C4_Witness ==
    \E r \in Reqs :
        /\ pc[r] = "done"
        /\ s1[r].err = "ExchangeFailed"
        /\ sf[r] = "connected"
        /\ resp[r].kind = "ok"

\* C6: after a successful step 2 the scopes recorded for the user are exactly
\* the scopes of the granted scope string, not the requested list; a grant of
\* inventory:read alone records no inventory:write.
C6_RecordedScopesAreGranted ==
    \A r \in Reqs :
        (pc[r] = "done" /\ s2[r].kind = "return" /\ s2[r].success /\ up2[r].has_scope) =>
            /\ resp[r].inventory.authorized
            /\ Range(resp[r].inventory.scopes) = ScopeNames(up2[r].scope)
            /\ Len(resp[r].inventory.scopes) = Cardinality(ScopeNames(up2[r].scope))
            /\ up2[r].scope = Str("inventory:read") =>
                  Str("inventory:write") \notin Range(resp[r].inventory.scopes)

C6_Witness ==
    \E r \in Reqs :
        /\ pc[r] = "done"
        /\ up2[r].scope = Str("inventory:read")
        /\ resp[r].inventory = InventoryAccess(TRUE, <<Str("inventory:read")>>)
        /\ \E m \in sent : /\ m.flow = r
                           /\ m.step = 2
                           /\ ScopeNames(m.scope) = Range(StrList(inventory_scopes))

(***************************************************************************)
(* Properties of the inventory write paths (SpecInventory)                 *)
(***************************************************************************)
\* C5: an inventory write (stock update, bulk receive, reorder) takes effect
\* only for a caller whose granted scope set contains inventory:write.
C5_WritesNeedWriteScope ==
    \A e \in effects : "inventory:write" \in granted[e.caller]

(***************************************************************************)
(* Properties of the management-credential cache (SpecVault)               *)
(***************************************************************************)
\* C7: an invocation of get_management_token made while a stored grant is
\* inside its window sends no request and returns the cached credential.
C7_CachedWithinWindow ==
    \A c \in Callers :
        (mcall[c].started /\ mcall[c].in_window) =>
            /\ ~mcall[c].issued
            /\ mpc[c] = "done"
            /\ mcall[c].outcome.kind = "return"
            /\ mcall[c].outcome.tok = mcall[c].cached

C7_Witness ==
    /\ invocations = 3
    /\ requests = 1
    /\ \A c \in Callers : /\ mcall[c].in_window
                          /\ mcall[c].outcome.tok = management_token
                          /\ management_token # NoneStr

\* C8 as stated: the cache is served only strictly before stored time +
\* expires_in - 60; every invocation at or after that instant sends a new
\* request and replaces the cached credential and its expiry.
C8_ExpiredAlwaysReplaced ==
    \A c \in Callers : mcall[c].started =>
        /\ ~mcall[c].issued => mcall[c].in_window
        /\ ~mcall[c].in_window => mcall[c].issued
        /\ (~mcall[c].in_window /\ mpc[c] = "done") => mcall[c].replaced

\* C8 amended: as above, but the cached credential and its expiry are
\* replaced when the new request succeeds; when it fails the call raises and
\* the cache is left as it was.
C8_ExpiredRefetched ==
    \A c \in Callers : mcall[c].started =>
        /\ ~mcall[c].issued => mcall[c].in_window
        /\ ~mcall[c].in_window => mcall[c].issued
        /\ (~mcall[c].in_window /\ mpc[c] = "done") =>
              /\ mcall[c].outcome.kind = "return" =>
                    mcall[c].replaced /\ management_token # NoneStr
              /\ mcall[c].outcome.kind = "raise" => mcall[c].kept

C8_Witness ==
    \E c \in Callers :
        /\ mpc[c] = "done"
        /\ mcall[c].cached # NoneStr
        /\ ~mcall[c].in_window
        /\ mcall[c].replaced
        /\ mcall[c].outcome.tok # mcall[c].cached
        /\ now = mgmt_store.at

(***************************************************************************)
(* Properties of the JWKS cache (SpecJwks)                                 *)
(***************************************************************************)
FetchFailed(v) ==
    /\ vcall[v].issued
    /\ vcall[v].answer.kind # "none"
    /\ \/ vcall[v].answer.kind = "timeout"
       \/ vcall[v].answer.status # 200
       \/ ~vcall[v].answer.json

\* C9: a get_jwks call made while a fetched key set is cached and less than
\* 3600 seconds old sends no request and returns that key set, whatever keys
\* it holds.
C9_JwksCachedWithinTtl ==
    \A v \in Validators :
        (vcall[v].started /\ vcall[v].in_ttl) =>
            /\ ~vcall[v].issued
            /\ vpc[v] = "done"
            /\ vcall[v].jwks = JwksOutcome("return", "", vcall[v].cached)

C9_Witness ==
    \E v \in Validators :
        /\ vcall[v].in_ttl
        /\ vcall[v].cached = <<Jwks({})>>
        /\ vcall[v].current_time > jwks_cache_time
        /\ vcall[v].jwks.kind = "return"

\* C10: when get_jwks has to fetch and the fetch fails, it raises and hands
\* out no key set, stale or other, and the validation of that call fails.
C10_NoStaleKeys ==
    \A v \in Validators :
        FetchFailed(v) =>
            /\ vpc[v] = "done"
            /\ vcall[v].jwks.kind = "raise"
            /\ vcall[v].jwks.keys = <<>>
            /\ vcall[v].result.kind = "raise"
            /\ vcall[v].result.sub = NoneStr

C10_Witness ==
    \E v \in Validators :
        /\ FetchFailed(v)
        /\ vcall[v].cached # <<>>
        /\ vcall[v].token.kid \in vcall[v].cached[1].keys
        /\ ~vcall[v].token.expired
        /\ vcall[v].result.kind = "raise"

(***************************************************************************)
(* Properties of validate_id_token (SpecValidate)                          *)
(***************************************************************************)
\* the call of this state is over
ValidationDone == val_result # NotValidated

\* C11: a token whose header kid matches no key of the key set is rejected
\* with the key-not-found error, never another error and never accepted,
\* whatever its signature, expiry, issuer, audience and claims.
C11_UnknownKeyIsKeyNotFound ==
    (ValidationDone /\ val_token.wellformed /\ val_token.kid \notin val_jwks.keys) =>
        val_result = Rejected(401, "Invalid token: key not found")

C11_Witness ==
    /\ ValidationDone
    /\ val_token.kid = "k9"
    /\ val_jwks = Jwks({"k1", "k2"})
    /\ val_token.expired /\ ~val_token.aud_ok /\ ~val_token.iss_ok
    /\ val_result.detail = "Invalid token: key not found"

C13_ValidTokenGivesItsSubject ==
    (/\ ValidationDone
     /\ val_token.wellformed
     /\ val_token.kid \in val_jwks.keys /\ val_token.signer = val_token.kid
     /\ ~val_token.expired /\ val_token.iss_ok /\ val_token.aud_ok
     /\ val_token.has_sub) =>
        /\ val_result.kind = "return"
        /\ val_result.sub = val_token.sub
        /\ val_result.groups = (IF val_token.has_groups THEN val_token.groups ELSE {})

C13_Witness ==
    /\ val_result = Validated("user-42", {"Admins", "ProGear-Sales"})
    /\ val_token.has_groups
    /\ val_jwks = Jwks({"k1", "k2"})

(***************************************************************************)
(* Properties of the exchange operations (SpecExchange)                    *)
(***************************************************************************)
\* the requests invocation i has sent
SentBy(i) == {k \in DOMAIN xsent : xsent[k].by = i}

\* C14: every client assertion minted has a jti no earlier one has, also
\* when minted at the same instant, and no two requests to the Okta token
\* endpoints carry the same assertion: each carries the one its own call
\* minted.
C14_AssertionsAreFresh ==
    /\ \A a, b \in DOMAIN xminted : a # b => xminted[a].jti # xminted[b].jti
    /\ \A a, b \in DOMAIN xsent :
           (a # b /\ xsent[a].op \in OktaOps /\ xsent[b].op \in OktaOps) =>
               xsent[a].jti # xsent[b].jti
    /\ \A a \in DOMAIN xsent : xsent[a].op \in OktaOps =>
           \E k \in DOMAIN xminted : /\ xminted[k].jti = xsent[a].jti
                                     /\ xminted[k].by = xsent[a].by

C14_Witness ==
    /\ Len(xminted) = 2
    /\ xminted[1].iat = xminted[2].iat
    /\ xminted[1].jti # xminted[2].jti
    /\ xsent[1].op = "exchange_for_id_jag"
    /\ xsent[2].op = "exchange_id_jag_for_token"

\* C15: with no workload private key configured, no assertion is minted and
\* an exchange_for_id_jag or exchange_id_jag_for_token call ends with the
\* signing-key-missing error without having sent a request.
C15_NoKeyNoRequest ==
    ~wlp_private_key =>
        /\ xminted = <<>>
        /\ \A i \in Exchanges : (xcall[i].op \in OktaOps) =>
               /\ xcall[i].state = "done"
               /\ xcall[i].result = ExchangeResult("raise", "SigningKeyMissing", FALSE, FALSE)
               /\ xcall[i].nreq = 0
               /\ SentBy(i) = {}

C15_Witness ==
    /\ ~wlp_private_key
    /\ xcall[1].op = "exchange_for_id_jag"
    /\ xcall[2].op = "exchange_id_jag_for_token"
    /\ xcall[2].result.err = "SigningKeyMissing"
    /\ xsent = <<>>

\* C16: an operation whose request timed out ends as it does on a
\* non-success response: exchange_id_jag_for_token and
\* exchange_okta_token_for_vault return success=false, exchange_for_id_jag
\* raises ExchangeFailed, get_management_token raises VaultAuthFailed.
C16_TimeoutAsNonSuccess ==
    \A i \in Exchanges : (xcall[i].state = "done" /\ xcall[i].answer.kind = "timeout") =>
        xcall[i].result =
            IF xcall[i].op = "exchange_for_id_jag"
            THEN ExchangeResult("raise", "ExchangeFailed", FALSE, FALSE)
            ELSE IF xcall[i].op = "get_management_token"
            THEN ExchangeResult("raise", "VaultAuthFailed", FALSE, FALSE)
            ELSE ExchangeResult("return", "", TRUE, FALSE)

\* C17: an invocation of an exchange operation sends at most one request to
\* its token endpoint, whatever the answer.
C17_AtMostOneRequest ==
    \A i \in Exchanges :
        /\ xcall[i].nreq <= 1
        /\ Cardinality(SentBy(i)) = xcall[i].nreq

C17_Witness ==
    /\ xcall[1].op = "exchange_for_id_jag"
    /\ xcall[2].op = "get_management_token"
    /\ \A i \in {1, 2} : /\ xcall[i].state = "done"
                          /\ xcall[i].answer.status = 401
                          /\ xcall[i].result.kind = "raise"
                          /\ xcall[i].nreq = 1


(***************************************************************************)
(* Vault lookups                                                           *)
(***************************************************************************)
LookupDone == lk_result # NoLookupResult

\* the lookup had a credential and the vault answered it over HTTP, with a
\* JSON body when the status is 200
LookupAnswered ==
    /\ LookupDone
    /\ lk_management = "return" \/ Truthy(lk_vault_token)
    /\ lk_answer.kind = "http"
    /\ lk_answer.status = 200 => lk_answer.json

\* the positions of the linked identities of the configured provider
Matching == {i \in DOMAIN lk_answer.list : lk_answer.list[i].provider = "salesforce"}

\* C18: get_salesforce_token decides its one outcome in priority order:
\* user_not_found when the user-record lookup is not a success; else
\* salesforce_not_connected when no linked identity has the configured
\* provider, whatever other identities exist; else no_token when the (first)
\* matching identity has no access-token value; else success with that
\* identity's access and refresh tokens.
C18_DenialPriority ==
    (lk_op = "get_salesforce_token" /\ LookupAnswered) =>
        /\ lk_result.kind = "return"
        /\ IF lk_answer.status # 200
           THEN ~lk_result.success /\ lk_result.error = "user_not_found"
           ELSE IF Matching = {}
           THEN ~lk_result.success /\ lk_result.error = "salesforce_not_connected"
           ELSE \E k \in Matching :
                   /\ \A j \in Matching : k <= j
                   /\ IF lk_answer.list[k].access_token \in {NoneStr, ""}
                      THEN ~lk_result.success /\ lk_result.error = "no_token"
                      ELSE /\ lk_result.success
                           /\ lk_result.error = NoneStr
                           /\ lk_result.value = lk_answer.list[k].access_token
                           /\ lk_result.refresh_token = lk_answer.list[k].refresh_token

\* a user whose first linked identity is another provider's, holding a token,
\* and whose Salesforce identity has no token: the answer is no_token
C18_Witness ==
    /\ lk_op = "get_salesforce_token" /\ LookupAnswered
    /\ lk_answer.status = 200
    /\ Len(lk_answer.list) = 2
    /\ lk_answer.list[1] = Identity("google-oauth2", "sf-at", "sf-rt")
    /\ lk_answer.list[2] = Identity("salesforce", NoneStr, NoneStr)
    /\ lk_result = Denied("no_token")

\* C19: when the vault user search yields zero records,
\* get_user_id_from_okta_sub returns None and does not raise; when it yields
\* at least one record it returns the user id of the first record.
C19_FirstRecordOrNone ==
    (/\ lk_op = "get_user_id_from_okta_sub" /\ LookupAnswered
     /\ lk_answer.status = 200) =>
        /\ lk_result.kind = "return"
        /\ IF Len(lk_answer.list) = 0
           THEN lk_result.value = NoneStr
           ELSE lk_result.value = lk_answer.list[1].user_id

\* a search that found nothing is answered None
C19_Witness ==
    /\ lk_op = "get_user_id_from_okta_sub" /\ LookupAnswered
    /\ lk_answer.status = 200
    /\ lk_answer.list = <<>>
    /\ lk_result.kind = "return" /\ lk_result.value = NoneStr


(***************************************************************************)
(* Group membership and the exchange path                                  *)
(***************************************************************************)
\* both exchanges of request r ended with a success
BothExchangesSucceeded(r) ==
    /\ s1[r].kind = "return"
    /\ s2[r].kind = "return" /\ s2[r].success

\* C20: group membership grants inventory access only in the degraded mode.
\* With an inventory authorization server configured the user-access check
\* reports inventory authorized only if both exchanges succeeded, whatever
\* groups the user has; with none configured no exchange request is sent and
\* inventory is authorized exactly when the user's groups contain one of the
\* configured groups.
C20_GroupsOnlyInDegradedMode ==
    \A r \in Reqs :
        pc[r] = "done" =>
            IF inventory_auth_server_id
            THEN resp[r].kind = "ok" /\ resp[r].inventory.authorized
                     => BothExchangesSucceeded(r)
            ELSE /\ \A q \in sent : q.flow # r
                 /\ s1[r] = NotCalled /\ s2[r] = NotCalled
                 /\ resp[r].kind = "ok"
                 /\ resp[r].inventory.authorized
                        <=> \E g \in groups[r] : g \in FallbackGroups

\* a member of a configured group is refused because the resource
\* authorization server denied the exchange
C20_Witness ==
    \E r \in Reqs :
        /\ pc[r] = "done"
        /\ inventory_auth_server_id
        /\ "ProGear-Warehouse" \in groups[r]
        /\ s1[r].kind = "return"
        /\ s2[r].kind = "return" /\ ~s2[r].success
        /\ resp[r].kind = "ok" /\ ~resp[r].inventory.authorized

(***************************************************************************)
(* Scopes of the chat endpoints (SpecInventory)                            *)
(***************************************************************************)
\* C21: the scoped access token is never cached or assumed: a request that
\* uses resource scopes for a caller uses the scope set the two-hop exchange
\* grants that caller in the request, so a chat request served with
\* inventory:read is one whose caller the exchange grants inventory:read.
C21_ScopesComeFromExchange ==
    (last.endpoint = "chat.inventory" /\ last.status = 200) =>
        has_scope(ChatScopes, "inventory:read") = ("inventory:read" \in granted[last.caller])

(***************************************************************************)
(* Independence of concurrent flows (SpecFlows)                            *)
(***************************************************************************)
PerUserFields == {"user", "vault_user", "credential", "id_jag", "scopes"}

\* C22: under every interleaving of requests of different users, each value
\* a request holds (validated identity, identity assertion, granted scopes,
\* vault user, linked credential) is the one of that request's own user;
\* the key cache and the management credential are the only state the
\* requests share.
C22_FlowsAreIndependent ==
    \A f \in Flows : \A x \in PerUserFields :
        fl[f][x] # NoneTok => fl[f][x].of = fl[f].id_token.of

\* one request has finished with all its values while another, started
\* before it finished, holds its own assertion and awaits step 2
C22_Witness ==
    \E f, g \in Flows :
        /\ f # g
        /\ fl[f].pc = "done" /\ \A x \in PerUserFields : fl[f][x] # NoneTok
        /\ fl[g].pc = "asserted" /\ fl[g].id_jag = IdJag(g)
        /\ fl[g].credential = PerUser("salesforce_token", g)
        /\ jwks_cache # <<>> /\ management_token # NoneStr

(***************************************************************************)
(* Properties of the AI orchestrator (SpecAgent)                           *)
(***************************************************************************)
\* C23: an unexpected exception raised inside tool execution is reported to
\* the caller only as a generic internal error: neither the reply text nor a
\* tool result delivered with it carries the exception's own message.
C23_NoExceptionTextDelivered ==
    ag.pc = "done" =>
        /\ ag.content.detail = ""
        /\ \A j \in DOMAIN ag.tool_calls : ag.tool_calls[j].result.detail = ""

\* C29: when the model's reply holds k >= 1 tool calls, the follow-up request
\* holds exactly k tool-result messages in call order, the i-th carrying the
\* id of the i-th tool call and that call's result.
C29_ResultsPairedWithCallIds ==
    (ag.pc = "done" /\ Len(ag.tool_calls) = Len(ag.reply) /\ Len(ag.reply) >= 1) =>
        /\ Len(ag.messages) = Len(ag.reply)
        /\ \A i \in DOMAIN ag.messages :
               /\ ag.messages[i].tool_call_id = ag.reply[i].id
               /\ ag.messages[i].content = ag.tool_calls[i].result
               /\ ag.messages[i].content.of = ag.reply[i].id

(***************************************************************************)
(* Properties of the vault path of chat (SpecChat)                         *)
(***************************************************************************)
\* the vault path of request c ended without a credential: no vault user,
\* a denial of get_salesforce_token, or an exception of either lookup
VaultPathFailed(c) ==
    \/ ch[c].search.kind = "raise"
    \/ ch[c].search.kind = "return" /\ ~Truthy(ch[c].search.value)
    \/ ch[c].sf_result.kind = "raise"
    \/ ch[c].sf_result.kind = "return" /\ ~ch[c].sf_result.success

\* C24: in a chat request every denial or failure on the vault path is
\* caught and becomes a normal "feature unavailable" response: the request
\* completes with a 200, no Salesforce tool is executed and no Salesforce
\* credential is used.
C24_VaultFailureIsFeatureUnavailable ==
    \A c \in Chats :
        (ch[c].pc = "done" /\ VaultPathFailed(c)) =>
            /\ ch[c].response.status = 200
            /\ ~ch[c].response.tools_run
            /\ ch[c].response.credential = NoneStr
            /\ ch[c].response.agent = "salesforce" =>
                   ch[c].response.message = NoAccessText /\ ch[c].response.scopes = <<>>

\* a Salesforce question of a user whose lookup raised is answered with the
\* no-access text
C24_Witness ==
    \E c \in Chats :
        /\ ch[c].pc = "done"
        /\ ch[c].sf_result.kind = "raise"
        /\ ch[c].response = ChatResponse(200, "salesforce", NoAccessText, FALSE, NoneStr, <<>>)

\* C25: the three denial reasons of the vault lookup stay distinct up to
\* what the user is shown: two Salesforce requests denied for different
\* reasons never get the same message.
C25_DenialReasonsStayDistinct ==
    \A c, d \in Chats :
        (/\ ch[c].pc = "done" /\ ch[d].pc = "done"
         /\ ch[c].response.agent = "salesforce" /\ ch[d].response.agent = "salesforce"
         /\ ch[c].sf_result.kind = "return" /\ ~ch[c].sf_result.success
         /\ ch[d].sf_result.kind = "return" /\ ~ch[d].sf_result.success
         /\ ch[c].sf_result.error # ch[d].sf_result.error)
            => ch[c].response.message # ch[d].response.message

(***************************************************************************)
(* Properties of the InventoryTools instance (SpecTools)                   *)
(***************************************************************************)
\* C26: an operation that requires a scope is decided by membership of that
\* scope in the instance's scope list: when the scope is absent the
\* operation returns an ERROR tool call with an access-denied message, its
\* function does not run and every product and alert is unchanged; when it
\* is present the function runs.
C26_ScopeMembershipDecides ==
    [][tl'.last.required_scope # NoneStr =>
          IF tl'.last.required_scope \in {tl.user_scopes[i] : i \in DOMAIN tl.user_scopes}
          THEN tl'.last.ran
          ELSE /\ tl'.last.status = "error"
               /\ tl'.last.error = AccessDenied(tl'.last.required_scope)
               /\ ~tl'.last.ran
               /\ tl'.products = tl.products
               /\ tl'.alerts = tl.alerts]_vars

\* update_stock was refused to an instance without inventory:write
C26_Witness ==
    /\ tl.user_scopes = <<"inventory:read">>
    /\ tl.last = ToolCall("update_stock", "inventory:write", "error",
                          AccessDenied("inventory:write"), FALSE)
    /\ tl.products = DEMO_PRODUCTS

\* C28: after any sequence of stock-mutating operations every product has
\* quantity >= 0 and a status consistent with its quantity and reorder
\* point: out_of_stock iff quantity = 0, low_stock iff 0 < quantity <
\* reorder_point, in_stock iff quantity >= reorder_point and quantity > 0.
C28_StatusMatchesQuantity ==
    \A sku \in DOMAIN tl.products :
        LET p == tl.products[sku]
        IN  /\ p.quantity >= 0
            /\ p.status = "out_of_stock" <=> p.quantity = 0
            /\ p.status = "low_stock" <=> (0 < p.quantity /\ p.quantity < p.reorder_point)
            /\ p.status = "in_stock" <=> (p.quantity >= p.reorder_point /\ p.quantity > 0)


(***************************************************************************)
(* Properties of concurrent get_jwks calls (SpecRace)                      *)
(***************************************************************************)
\* C27: under every interleaving of concurrent get_jwks calls, with
\* redundant refreshes and arbitrary fetch latencies, a call never returns
\* a key set fetched more than 3600 seconds before the call, and every key
\* set returned is one a successful fetch obtained
C27_ReturnedKeysAreFreshAndFetched ==
    gj.last.returned # <<>> =>
        /\ gj.last.returned[1].fetch_error = ""
        /\ gj.last.current_time - gj.last.returned[1].fetched_at <= CacheTtl

\* a refresh that raced another one past an expired cache and whose answer
\* came back late
C27_Witness ==
    /\ gj.last.issued /\ gj.last.raced /\ gj.last.had_cache
    /\ gj.last.returned # <<>>
    /\ gj.last.returned[1].fetched_at > gj.last.current_time


(***************************************************************************)
(* Fail-closed user-access check (SpecAccess)                              *)
(***************************************************************************)
\* C30: the user-access check is fail-closed: whatever the vault lookup and
\* the two exchanges do, the answer reports Salesforce connected only if the
\* Salesforce token lookup succeeded, and, with an authorization server
\* configured, reports inventory authorized only if step 1 returned an
\* assertion and step 2 returned success; a section that is not granted
\* carries false and an empty scope list.
C30_FailClosed ==
    \A r \in Reqs :
        pc[r] = "done" =>
            /\ resp[r].kind = "ok"
            /\ resp[r].salesforce.connected => sf[r] = "connected"
            /\ ~resp[r].salesforce.connected => resp[r].salesforce.scopes = <<>>
            /\ (inventory_auth_server_id /\ resp[r].inventory.authorized) =>
                   /\ s1[r].kind = "return" /\ s1[r].tok # NoneTok
                   /\ s2[r].kind = "return" /\ s2[r].success
            /\ ~resp[r].inventory.authorized => resp[r].inventory.scopes = <<>>

====
